---- MODULE Spec2Model ----
(***************************************************************************)
(* A model of the pusuclt publish/subscribe client (package pusuclt) and   *)
(* the pusu wire types it uses.                                            *)
(*                                                                         *)
(* Tasks: the user task (calls Connect, then the public API), the writer   *)
(* task (Client.run), the reader task (Client.readConn) and the goroutine  *)
(* spawned for the Start callback.  The broker is the environment: it      *)
(* supplies the frames the reader reads and decides whether a dial, a      *)
(* write or a read fails.                                                  *)
(*                                                                         *)
(* Granularity: everything a task does between two blocking operations     *)
(* (mutex Lock, channel send/receive, stream read) is one step.  A frame   *)
(* written by the writer task is one wire entry; the Start frame, which    *)
(* the connecting task writes itself, is a header entry and a payload      *)
(* entry (Message.Write issues the two writes separately).                 *)
(***************************************************************************)
EXTENDS Integers, Sequences, FiniteSets, TLC

----------------------------------------------------------------------------
(* Bounds of the model *)

\* the number of public API calls the user task makes after Connect
MaxCalls == 2
\* the same, for a client that starts in the running state (SpecAPI)
MaxAPICalls == 2
\* the longest (topic, handler) list passed to Subscribe / Unsubscribe
MaxPairs == 2
\* the number of Ping frames the ping ticker produces
MaxPings == 1
\* the number of Subscribe / Unsubscribe calls made while the broker
\* publishes (SpecDeliver)
MaxSubCalls == 4
\* the number of messages written to one stream (SpecStream)
MaxStream == 2
\* the number of Subscribe calls made on topics of one tree (SpecTree)
MaxTreeCalls == 2
\* the number of API calls made by the user task and by the handlers
\* together (SpecHandlerCall)
MaxHandlerCalls == 2
\* the longest payload, short of the very long ones, given to Message.Write
\* and the most bytes that follow a header in a hand-made buffer
MaxShort == 2
\* the number of addHandler / removeHandler calls made on a handlerSet used
\* on its own (SpecSet)
MaxSetOps == 5
\* the longest string given to Topic.Check and Topic.SubTopics (SpecTopic)
MaxTopicLen == 5
\* the number of times a Callback made by MakeCallback is run (SpecCallback)
MaxInvokes == 4

----------------------------------------------------------------------------
(* Values *)

Nil == "nil"
Handlers == {"h1", "h2"}
Payloads == {"hello"}

\* topics are strings, modelled as sequences of characters
TopicA == <<"/", "a">>
TopicB == <<"/", "b">>
TopicRel == <<"a">>
NoTopic == <<>>
ValidTopics == {TopicA, TopicB}
ArgTopics == {TopicA, TopicB, TopicRel}

\* the message ids a client of this model can allocate, and 0
FrameIDs == 0 .. (MaxCalls + MaxAPICalls + 1)

----------------------------------------------------------------------------
(* pusu.Topic *)

\* path.IsAbs
IsAbs(t) == Len(t) > 0 /\ t[1] = "/"

\* the segments of a path: the maximal runs of characters between slashes
RECURSIVE Segments(_, _, _)
Segments(t, i, cur) ==
  IF i > Len(t) THEN <<cur>>
  ELSE IF t[i] = "/" THEN <<cur>> \o Segments(t, i + 1, <<>>)
  ELSE Segments(t, i + 1, Append(cur, t[i]))

\* path.Clean on a rooted path: drop empty and "." segments, let ".." remove
\* the segment before it (and nothing at the root)
RECURSIVE CleanSegs(_, _, _)
CleanSegs(segs, i, out) ==
  IF i > Len(segs) THEN out
  ELSE IF segs[i] = <<>> \/ segs[i] = <<".">> THEN CleanSegs(segs, i + 1, out)
  ELSE IF segs[i] = <<".", ".">>
       THEN CleanSegs(segs, i + 1,
                      IF Len(out) = 0 THEN out ELSE SubSeq(out, 1, Len(out) - 1))
  ELSE CleanSegs(segs, i + 1, Append(out, segs[i]))

RECURSIVE JoinSegs(_, _)
JoinSegs(segs, i) ==
  IF i > Len(segs) THEN <<>>
  ELSE (IF i > 1 THEN <<"/">> ELSE <<>>) \o segs[i] \o JoinSegs(segs, i + 1)

CleanAbs(t) == <<"/">> \o JoinSegs(CleanSegs(Segments(t, 1, <<>>), 1, <<>>), 1)

\* Topic.Check, were it to test only that the topic is absolute
TopicCheckAbsOnly(t) == IsAbs(t)

\* Topic.Check: nil error (TRUE) iff the topic is absolute and clean
TopicCheck(t) == IsAbs(t) /\ t = CleanAbs(t)

\* path.Clean on a path that is not rooted: as on a rooted one, but a ".."
\* with no segment before it to remove is kept, and the empty result is "."
RECURSIVE CleanRelSegs(_, _, _)
CleanRelSegs(segs, i, out) ==
  IF i > Len(segs) THEN out
  ELSE IF segs[i] = <<>> \/ segs[i] = <<".">>
  THEN CleanRelSegs(segs, i + 1, out)
  ELSE IF segs[i] = <<".", ".">> /\ Len(out) > 0
                                /\ out[Len(out)] # <<".", ".">>
  THEN CleanRelSegs(segs, i + 1, SubSeq(out, 1, Len(out) - 1))
  ELSE CleanRelSegs(segs, i + 1, Append(out, segs[i]))

\* path.Clean
Clean(t) ==
  IF IsAbs(t) THEN CleanAbs(t)
  ELSE LET r == JoinSegs(CleanRelSegs(Segments(t, 1, <<>>), 1, <<>>), 1)
       IN IF r = <<>> THEN <<".">> ELSE r

\* strings.LastIndex(t, "/") + 1: the place of the last slash of t, 0 when
\* there is none
RECURSIVE LastSlash(_)
LastSlash(t) ==
  IF t = <<>> THEN 0
  ELSE IF t[Len(t)] = "/" THEN Len(t)
  ELSE LastSlash(SubSeq(t, 1, Len(t) - 1))

\* path.Dir, were it to return what path.Split returns without cleaning it
DirUnclean(t) == SubSeq(t, 1, LastSlash(t))

\* path.Dir: all of t up to and with its last slash, cleaned
Dir(t) == Clean(SubSeq(t, 1, LastSlash(t)))

\* the loop of Topic.SubTopics: the topics appended from t on
RECURSIVE TopicLoop(_)
TopicLoop(t) ==
  LET newTopic == Dir(t)
  IN IF newTopic = t THEN <<>> ELSE <<newTopic>> \o TopicLoop(newTopic)

\* Topic.SubTopics
SubTopics(t) == IF ~TopicCheck(t) THEN <<t>> ELSE <<t>> \o TopicLoop(t)

----------------------------------------------------------------------------
(* pusuclt.handlerSet *)

\* MsgHandler.id: 0 for the nil handler, the function's address otherwise
HandlerID(h) ==
  IF h = Nil THEN 0 ELSE IF h = "h1" THEN 1 ELSE IF h = "h2" THEN 2 ELSE 3

EmptyMap == [x \in {} |-> 0]

newHandlerSet == [handlersInOrder |-> <<>>, handlerMap |-> EmptyMap]

\* handlerCount, were it to count one handler too few
handlerCountOneShort(hs) == Cardinality(DOMAIN hs.handlerMap) - 1

\* handlerSet.handlerCount
handlerCount(hs) == Cardinality(DOMAIN hs.handlerMap)

\* removeTrailingNils, were it to remove nothing
keepTrailingNils(s) == s

\* removeTrailingNils, were it to remove every empty slot, the interior
\* ones too, with no re-indexing of the handlerMap
RECURSIVE removeAllNils(_)
removeAllNils(s) ==
  IF s = <<>> THEN <<>>
  ELSE (IF s[1] = Nil THEN <<>> ELSE <<s[1]>>) \o removeAllNils(Tail(s))

\* handlerSet.removeTrailingNils
RECURSIVE removeTrailingNils(_)
removeTrailingNils(s) ==
  IF Len(s) > 0 /\ s[Len(s)] = Nil
  THEN removeTrailingNils(SubSeq(s, 1, Len(s) - 1))
  ELSE s

\* handlerSet.addHandler, were it to append the handler before it reports
\* that it is in the set already
hsAddHandlerTwice(hs, h) ==
  [hs |-> [handlersInOrder |-> Append(hs.handlersInOrder, h),
           handlerMap |-> (HandlerID(h) :> (Len(hs.handlersInOrder) + 1))
                          @@ hs.handlerMap],
   err |-> HandlerID(h) \in DOMAIN hs.handlerMap]

\* handlerSet.addHandler: the set after the call and whether it failed
hsAddHandler(hs, h) ==
  IF HandlerID(h) \in DOMAIN hs.handlerMap
  THEN [hs |-> hs, err |-> TRUE]
  ELSE [hs |-> [handlersInOrder |-> Append(hs.handlersInOrder, h),
                handlerMap |-> (HandlerID(h) :> (Len(hs.handlersInOrder) + 1))
                               @@ hs.handlerMap],
        err |-> FALSE]

\* handlerSet.removeHandler
hsRemoveHandler(hs, h) ==
  IF HandlerID(h) \notin DOMAIN hs.handlerMap
  THEN [hs |-> hs, err |-> TRUE]
  ELSE [hs |-> [handlersInOrder |->
                  removeTrailingNils(
                    [hs.handlersInOrder EXCEPT ![hs.handlerMap[HandlerID(h)]] = Nil]),
                handlerMap |-> [k \in DOMAIN hs.handlerMap \ {HandlerID(h)}
                                  |-> hs.handlerMap[k]]],
        err |-> FALSE]

\* LiveInOrder, were the slots to be walked from the last to the first
RECURSIVE LiveNewestFirst(_)
LiveNewestFirst(s) ==
  IF s = <<>> THEN <<>>
  ELSE LiveNewestFirst(Tail(s)) \o (IF s[1] = Nil THEN <<>> ELSE <<s[1]>>)

\* the non-nil slots of a handler set, in slot order
RECURSIVE LiveInOrder(_)
LiveInOrder(s) ==
  IF s = <<>> THEN <<>>
  ELSE (IF s[1] = Nil THEN <<>> ELSE <<s[1]>>) \o LiveInOrder(Tail(s))

----------------------------------------------------------------------------
(* pusuclt.TopicHandler and the handler map of the Client *)

\* TopicHandler.check: TRUE iff the pair is valid
THCheck(th) == TopicCheck(th.topic) /\ th.handler # Nil

\* addHandler, were it to report every topic as new
addHandlerEveryTopicNew(hm, th) ==
  IF ~THCheck(th)
  THEN [handlers |-> hm, newTopic |-> FALSE, err |-> TRUE]
  ELSE LET hs == IF th.topic \notin DOMAIN hm THEN newHandlerSet
                 ELSE hm[th.topic]
           r == hsAddHandler(hs, th.handler)
       IN IF r.err
          THEN [handlers |-> hm, newTopic |-> FALSE, err |-> TRUE]
          ELSE [handlers |-> (th.topic :> r.hs) @@ hm,
                newTopic |-> TRUE, err |-> FALSE]

\* addHandler, were it to put the set of a new topic in the map before the
\* checks
addHandlerEntryFirst(hm, th) ==
  LET isNew == th.topic \notin DOMAIN hm
      hs == IF isNew THEN newHandlerSet ELSE hm[th.topic]
      r == hsAddHandler(hs, th.handler)
  IN IF ~THCheck(th) \/ r.err
     THEN [handlers |-> (th.topic :> hs) @@ hm, newTopic |-> FALSE,
           err |-> TRUE]
     ELSE [handlers |-> (th.topic :> r.hs) @@ hm,
           newTopic |-> isNew, err |-> FALSE]

\* Client.addHandler on handler map hm: the map after the call, whether the
\* topic is new, and whether the call failed
addHandler(hm, th) ==
  IF ~THCheck(th)
  THEN [handlers |-> hm, newTopic |-> FALSE, err |-> TRUE]
  ELSE LET isNew == th.topic \notin DOMAIN hm
           hs == IF isNew THEN newHandlerSet ELSE hm[th.topic]
           r == hsAddHandler(hs, th.handler)
       IN IF r.err
          THEN [handlers |-> hm, newTopic |-> FALSE, err |-> TRUE]
          ELSE [handlers |-> (th.topic :> r.hs) @@ hm,
                newTopic |-> isNew, err |-> FALSE]

\* the loop of Client.Subscribe over its (topic, handler) list, from entry i:
\* the handler map it leaves, the topics of the Subscribe payload, and
\* whether it returned an error
RECURSIVE SubscribeLoop(_, _, _, _)
SubscribeLoop(hm, list, i, subs) ==
  IF i > Len(list)
  THEN [handlers |-> hm, subs |-> subs, err |-> FALSE]
  ELSE LET r == addHandler(hm, list[i])
       IN IF r.err
          THEN [handlers |-> r.handlers, subs |-> subs, err |-> TRUE]
          ELSE SubscribeLoop(r.handlers, list, i + 1,
                             IF r.newTopic THEN Append(subs, list[i].topic)
                             ELSE subs)

\* the loop of Client.Unsubscribe, were it to fail at once and remove nothing
UnsubscribeLoopKeepsAll(hm, list, i, subs) ==
  [handlers |-> hm, subs |-> subs, err |-> TRUE]

\* the loop of Client.Unsubscribe over its list, from entry i
RECURSIVE UnsubscribeLoop(_, _, _, _)
UnsubscribeLoop(hm, list, i, subs) ==
  IF i > Len(list)
  THEN [handlers |-> hm, subs |-> subs, err |-> FALSE]
  ELSE LET th == list[i]
       IN IF th.topic \notin DOMAIN hm
          THEN [handlers |-> hm, subs |-> subs, err |-> TRUE]
          ELSE LET r == hsRemoveHandler(hm[th.topic], th.handler)
               IN IF r.err
                  THEN [handlers |-> hm, subs |-> subs, err |-> TRUE]
                  ELSE IF handlerCount(r.hs) = 0
                  THEN UnsubscribeLoop(
                         [t \in DOMAIN hm \ {th.topic} |-> hm[t]],
                         list, i + 1, Append(subs, th.topic))
                  ELSE UnsubscribeLoop(
                         [hm EXCEPT ![th.topic] = r.hs], list, i + 1, subs)

\* Client.nextMsgID, were it to hand out the id it handed out before
nextMsgIDSame(id) == id

\* Client.nextMsgID.  MsgID is an unsigned 32-bit counter; the ids of a run
\* of this model stay below MaxCalls + 2, far from the wrap at 2^32, which
\* is not modelled
nextMsgID(id) == id + 1

\* Client.addCallback: a nil callback is not stored
addCallback(cbs, id, cb) == IF cb = Nil THEN cbs ELSE (id :> cb) @@ cbs

\* Client.getCallback: the table after the callback for id was taken
getCallback(cbs, id) == [k \in DOMAIN cbs \ {id} |-> cbs[k]]

----------------------------------------------------------------------------
(* State of one Client and of the tasks around it *)

VARIABLES
  pc,          \* the user task: where it is in Connect or in an API call
               \* ("crashed", as for every task, once the process has ended)
  call,        \* the API call in progress: its name, its arguments and the
               \* message it sends
  ret,         \* what the last call returned, [op, err]; NoRet during a call
  ncalls,      \* API calls made so far
  mtx,         \* Client.mtx: "free" or the task holding it
  connected,   \* Client.connected
  connOpen,    \* Client.conn: TRUE from the dial until Close is called on it
  closeCalls,  \* calls of Close on Client.conn
  chanCloses,  \* times sendChan and stopChan have been closed
  handlers,    \* Client.handlers: topic -> handlerSet
  callbacks,   \* Client.callbacks: message id -> Callback
  msgID,       \* Client.msgID
  pingHandler, \* ConnInfo.pingHandler is not nil
  pingInterval,\* ConnInfo.PingInterval
  pcW,         \* the writer task (Client.run)
  pings,       \* ticks of the ping ticker so far
  pcR,         \* the reader task (Client.readConn)
  rxFrame,     \* the frame the reader is handling
  invoked,     \* the MsgHandler calls of the delivery that is running
  cbInvoked,   \* per message id, the arguments its Callback was run with
  startNote,   \* the goroutine running the Start callback
  wire,        \* what has been written to the stream, in order
  disconnected,\* a Disconnect call has returned nil
  buf,         \* a bytes.Buffer used on its own: the bytes it holds
  wr,          \* the Message.Write call made on buf: [msg, err]
  rd,          \* the ReadMsg call made on buf: [msg, err]
  sent,        \* the messages written one after the other to buf
  recvd,       \* the ReadMsg calls made one after the other on buf:
               \* [msg, err, used], used the number of bytes taken
  hset,        \* a handlerSet used on its own
  hres,        \* the last addHandler / removeHandler call on hset
  hops,        \* calls made on hset so far
  tstr,        \* a Topic used on its own
  tchk,        \* what Check returned for tstr: "none" before the call
  tsub,        \* what SubTopics returned for tstr: <<>> before the call
  mcb          \* a Callback made by MakeCallback(c, v) and used on its own:
               \* v, the errors it has been run with, the goroutines it has
               \* started that are in their send on c, and what has been
               \* received from c

vars == <<pc, call, ret, ncalls, mtx, connected, connOpen, closeCalls,
          chanCloses, handlers, callbacks, msgID, pingHandler, pingInterval,
          pcW, pings, pcR, rxFrame, invoked, cbInvoked, startNote, wire,
          disconnected, buf, wr, rd, sent, recvd, hset, hres, hops, tstr, tchk, tsub,
          mcb>>

userVars == <<pc, call, ret, ncalls, disconnected>>
connVars == <<connected, connOpen, closeCalls, chanCloses>>
cfgVars == <<pingHandler, pingInterval>>
readerVars == <<pcR, rxFrame, invoked>>
\* the objects used on their own, outside a Client
codecVars == <<buf, wr, rd, sent, recvd>>
setVars == <<hset, hres, hops>>
topicVars == <<tstr, tchk, tsub>>
objVars == <<codecVars, setVars, topicVars, mcb>>

NoMsg == [mt |-> "none", id |-> 0, topics |-> <<>>, data |-> Nil]
NoCall == [op |-> "none", cb |-> Nil, list |-> <<>>, msg |-> NoMsg]
NoFrame == [mt |-> "none", id |-> 0, ok |-> TRUE, topic |-> NoTopic, data |-> Nil]
NoRet == [op |-> "none", err |-> "none"]
NoIO == [msg |-> Nil, err |-> "none"]
NoSetCall == [op |-> "none", h |-> Nil, err |-> "none"]

\* no object is in use on its own: an empty buffer and newHandlerSet()
ObjInit ==
  /\ buf = <<>>
  /\ wr = NoIO
  /\ rd = NoIO
  /\ sent = <<>>
  /\ recvd = <<>>
  /\ hset = newHandlerSet
  /\ hres = NoSetCall
  /\ hops = 0
  /\ tstr = NoTopic
  /\ tchk = "none"
  /\ tsub = <<>>
  /\ mcb = [v |-> Nil, calls |-> <<>>, senders |-> 0, got |-> <<>>]

\* the (topic, handler) pairs and lists a caller can pass: every handler on
\* every valid topic, a pair with a relative topic and a pair with no handler
Pairs == [topic : ValidTopics, handler : Handlers]
         \cup {[topic |-> TopicRel, handler |-> "h1"],
               [topic |-> TopicA, handler |-> Nil]}
PairLists == UNION {[1 .. n -> Pairs] : n \in 1 .. MaxPairs}
\* the one-pair lists over one valid topic, one relative topic and one handler
OneLists == {<<p>> : p \in [topic : {TopicA, TopicRel}, handler : {"h1", Nil}]}
\* the Callback arguments: none, or a function of the caller
Callbacks == {Nil, "user"}

\* the frames the broker can send: an Ack or Error bears an id the client
\* has allocated, or 0.  ok says whether the payload unmarshals;
\* for a Publish frame topic and data are what the unmarshalling leaves in
\* the PublishMsgPayload (all of it, or what was decoded before the failure)
Frames ==
  [mt : {"Ack", "Error"}, id : 0 .. msgID, ok : {TRUE},
   topic : {NoTopic}, data : {Nil}]
  \cup [mt : {"Publish"}, id : {0}, ok : {TRUE},
        topic : ValidTopics, data : Payloads]
  \cup [mt : {"Publish"}, id : {0}, ok : {FALSE},
        topic : ValidTopics \cup {NoTopic}, data : Payloads \cup {Nil}]
  \cup [mt : {"Ping"}, id : {0}, ok : BOOLEAN, topic : {NoTopic}, data : {Nil}]
  \cup [mt : {"Start", "Subscribe", "Unsubscribe"}, id : {0}, ok : {TRUE},
        topic : {NoTopic}, data : {Nil}]

\* NewConnInfo: the default ping interval, in seconds
dfltPingIntervalSecs == 2

\* makeClient: the Client before Connect, with the ConnInfo of
\* NewConnInfo(nil)
Init ==
  /\ pc = "new"
  /\ call = NoCall
  /\ ret = NoRet
  /\ ncalls = 0
  /\ mtx = "free"
  /\ connected = FALSE
  /\ connOpen = FALSE
  /\ closeCalls = 0
  /\ chanCloses = 0
  /\ handlers = [t \in {} |-> newHandlerSet]
  /\ callbacks = [i \in {} |-> Nil]
  /\ msgID = 0
  /\ pingHandler = FALSE
  /\ pingInterval = dfltPingIntervalSecs
  /\ pcW = "none"
  /\ pings = 0
  /\ pcR = "none"
  /\ rxFrame = NoFrame
  /\ invoked = <<>>
  /\ cbInvoked = [i \in FrameIDs |-> <<>>]
  /\ startNote = "none"
  /\ wire = <<>>
  /\ disconnected = FALSE
  /\ ObjInit

----------------------------------------------------------------------------
(* Connect *)

\* Client.connect up to the start of the two tasks: the certificates are
\* loaded and the server is dialled; either can fail
ConnectDial ==
  /\ pc = "new"
  /\ \/ /\ pc' = "done"
        /\ ret' = [op |-> "Connect", err |-> "dialFailed"]
        /\ UNCHANGED <<connected, connOpen, pcW, pcR>>
     \/ /\ connOpen' = TRUE
        /\ connected' = TRUE
        /\ pcW' = "select"
        /\ pcR' = "reading"
        /\ pc' = "writeStart"
        /\ UNCHANGED ret
  /\ UNCHANGED <<call, ncalls, mtx, closeCalls, chanCloses, handlers,
                 callbacks, msgID, cfgVars, objVars, pings, rxFrame, invoked,
                 cbInvoked, startNote, wire, disconnected>>

\* the failure path of Client.connect after writeStartMsg returned an error
StartWriteFailed ==
  /\ closeCalls' = closeCalls + 1
  /\ connOpen' = FALSE
  /\ pc' = "done"
  /\ ret' = [op |-> "Connect", err |-> "startWriteFailed"]

\* Client.writeStartMsg: the id is allocated, the callback registered and
\* the header of the Start frame written, all by the connecting task
WriteStartHdr ==
  /\ pc = "writeStart"
  /\ msgID' = nextMsgID(msgID)
  /\ callbacks' = addCallback(callbacks, msgID', "start")
  /\ \/ /\ connOpen
        /\ wire' = Append(wire, [mt |-> "Start", id |-> msgID', part |-> "hdr"])
        /\ pc' = "startPayload"
        /\ UNCHANGED <<ret, connOpen, closeCalls>>
     \/ /\ StartWriteFailed
        /\ UNCHANGED wire
  /\ UNCHANGED <<call, ncalls, mtx, connected, chanCloses, handlers, cfgVars, objVars,
                 pcW, pings, readerVars, cbInvoked, startNote, disconnected>>

\* Message.Write: the payload of the Start frame
WriteStartPayload ==
  /\ pc = "startPayload"
  /\ \/ /\ connOpen
        /\ wire' = Append(wire, [mt |-> "Start", id |-> msgID, part |-> "payload"])
        /\ pc' = "startCheck"
        /\ UNCHANGED <<ret, connOpen, closeCalls>>
     \/ /\ StartWriteFailed
        /\ UNCHANGED wire
  /\ UNCHANGED <<call, ncalls, mtx, connected, chanCloses, handlers, callbacks,
                 msgID, cfgVars, objVars, pcW, pings, readerVars, cbInvoked, startNote,
                 disconnected>>

\* Client.startCheck: the value sent by the Start callback is received
StartCheckAck ==
  /\ pc = "startCheck"
  /\ startNote \in {"sendNil", "sendErr"}
  /\ startNote' = "done"
  /\ IF startNote = "sendNil"
     THEN /\ pc' = "idle"
          /\ ret' = [op |-> "Connect", err |-> "nil"]
     ELSE /\ pc' = "done"
          /\ ret' = [op |-> "Connect", err |-> "serverError"]
  /\ UNCHANGED <<call, ncalls, mtx, connVars, handlers, callbacks, msgID,
                 cfgVars, objVars, pcW, pings, readerVars, cbInvoked, wire, disconnected>>

\* Client.startCheck: the start timeout expires first
StartCheckTimeout ==
  /\ pc = "startCheck"
  /\ pc' = "done"
  /\ ret' = [op |-> "Connect", err |-> "startTimedOut"]
  /\ UNCHANGED <<call, ncalls, mtx, connVars, handlers, callbacks, msgID,
                 cfgVars, objVars, pcW, pings, readerVars, cbInvoked, startNote, wire,
                 disconnected>>

----------------------------------------------------------------------------
(* The public API, called by the user task once Connect has returned nil *)

\* Return, were the method to return nil whatever it found
ReturnNil(e) ==
  /\ pc' = "idle"
  /\ ret' = [op |-> call.op, err |-> "nil"]
  /\ call' = NoCall
  /\ UNCHANGED <<mtx, msgID, callbacks>>

\* an API method returns e without sending: the deferred Unlock has run
Return(e) ==
  /\ pc' = "idle"
  /\ ret' = [op |-> call.op, err |-> e]
  /\ call' = NoCall
  /\ UNCHANGED <<mtx, msgID, callbacks>>

\* Submit, were the message to bear the id handed out before
SubmitStaleID(mt, topics, data) ==
  /\ msgID' = nextMsgID(msgID)
  /\ call' = [call EXCEPT !.msg = [mt |-> mt, id |-> msgID,
                                   topics |-> topics, data |-> data]]
  /\ pc' = "register"
  /\ mtx' = "user"
  /\ UNCHANGED <<ret, callbacks>>

\* an API method has built its payload: holding the mutex, it allocates an
\* id and goes on to register its callback
Submit(mt, topics, data) ==
  /\ msgID' = nextMsgID(msgID)
  /\ call' = [call EXCEPT !.msg = [mt |-> mt, id |-> msgID',
                                   topics |-> topics, data |-> data]]
  /\ pc' = "register"
  /\ mtx' = "user"
  /\ UNCHANGED <<ret, callbacks>>

\* the addCallback call of an API method, which then goes on to send the
\* message on sendChan, still holding the mutex
Register ==
  /\ pc = "register"
  /\ callbacks' = addCallback(callbacks, call.msg.id, call.cb)
  /\ pc' = "send"
  /\ UNCHANGED <<call, ret, ncalls, disconnected, mtx, connVars, handlers,
                 msgID, cfgVars, objVars, pcW, pings, readerVars, cbInvoked, startNote,
                 wire>>

\* Subscribe(cb, list...) is called, with list drawn from lists (the user
\* task makes at most n calls): an empty list returns nil at once, any other
\* list goes on to Lock
CallSubscribe(n, lists) ==
  /\ pc = "idle"
  /\ ncalls < n
  /\ ncalls' = ncalls + 1
  /\ \/ /\ ret' = [op |-> "Subscribe", err |-> "nil"]
        /\ UNCHANGED <<pc, call>>
     \/ /\ pc' = "lock"
        /\ \E cb \in Callbacks, list \in lists :
             call' = [op |-> "Subscribe", cb |-> cb, list |-> list,
                      msg |-> NoMsg]
        /\ ret' = NoRet
  /\ UNCHANGED <<mtx, connVars, handlers, callbacks, msgID, cfgVars, objVars, pcW,
                 pings, readerVars, cbInvoked, startNote, wire, disconnected>>

\* Subscribe from the Lock on
SubscribeBody ==
  /\ pc = "lock"
  /\ call.op = "Subscribe"
  /\ mtx = "free"
  /\ IF ~connected
     THEN Return("errNoConn") /\ UNCHANGED handlers
     ELSE LET r == SubscribeLoop(handlers, call.list, 1, <<>>)
          IN /\ handlers' = r.handlers
             /\ IF r.err THEN Return("addFailed")
                ELSE IF Len(r.subs) = 0 THEN Return("nil")
                ELSE Submit("Subscribe", r.subs, Nil)
  /\ UNCHANGED <<ncalls, connVars, cfgVars, objVars, pcW, pings, readerVars, cbInvoked,
                 startNote, wire, disconnected>>

\* Unsubscribe(cb, list...) is called
CallUnsubscribe(n, lists) ==
  /\ pc = "idle"
  /\ ncalls < n
  /\ ncalls' = ncalls + 1
  /\ \/ /\ ret' = [op |-> "Unsubscribe", err |-> "nil"]
        /\ UNCHANGED <<pc, call>>
     \/ /\ pc' = "lock"
        /\ \E cb \in Callbacks, list \in lists :
             call' = [op |-> "Unsubscribe", cb |-> cb, list |-> list,
                      msg |-> NoMsg]
        /\ ret' = NoRet
  /\ UNCHANGED <<mtx, connVars, handlers, callbacks, msgID, cfgVars, objVars, pcW,
                 pings, readerVars, cbInvoked, startNote, wire, disconnected>>

\* Unsubscribe from the Lock on
UnsubscribeBody ==
  /\ pc = "lock"
  /\ call.op = "Unsubscribe"
  /\ mtx = "free"
  /\ IF ~connected
     THEN Return("errNoConn") /\ UNCHANGED handlers
     ELSE LET r == UnsubscribeLoop(handlers, call.list, 1, <<>>)
          IN /\ handlers' = r.handlers
             /\ IF r.err THEN Return("removeFailed")
                ELSE IF Len(r.subs) = 0 THEN Return("nil")
                ELSE Submit("Unsubscribe", r.subs, Nil)
  /\ UNCHANGED <<ncalls, connVars, cfgVars, objVars, pcW, pings, readerVars, cbInvoked,
                 startNote, wire, disconnected>>

\* Publish(cb, topic, payload) is called: the topic is checked before the
\* Lock
CallPublish(n) ==
  /\ pc = "idle"
  /\ ncalls < n
  /\ ncalls' = ncalls + 1
  /\ \E cb \in Callbacks, topic \in ArgTopics, payload \in Payloads :
       IF ~TopicCheck(topic)
       THEN /\ ret' = [op |-> "Publish", err |-> "badTopic"]
            /\ UNCHANGED <<pc, call>>
       ELSE /\ pc' = "lock"
            /\ call' = [op |-> "Publish", cb |-> cb, list |-> <<>>,
                        msg |-> [NoMsg EXCEPT !.topics = <<topic>>,
                                              !.data = payload]]
            /\ ret' = NoRet
  /\ UNCHANGED <<mtx, connVars, handlers, callbacks, msgID, cfgVars, objVars, pcW,
                 pings, readerVars, cbInvoked, startNote, wire, disconnected>>

\* Publish from the Lock on: the payload is marshalled, then the connected
\* flag is tested
PublishBody ==
  /\ pc = "lock"
  /\ call.op = "Publish"
  /\ mtx = "free"
  /\ IF ~connected
     THEN Return("errNoConn")
     ELSE Submit("Publish", call.msg.topics, call.msg.data)
  /\ UNCHANGED <<ncalls, connVars, handlers, cfgVars, objVars, pcW, pings, readerVars,
                 cbInvoked, startNote, wire, disconnected>>

\* Disconnect is called
CallDisconnect(n) ==
  /\ pc = "idle"
  /\ ncalls < n
  /\ ncalls' = ncalls + 1
  /\ pc' = "lock"
  /\ call' = [NoCall EXCEPT !.op = "Disconnect"]
  /\ ret' = NoRet
  /\ UNCHANGED <<mtx, connVars, handlers, callbacks, msgID, cfgVars, objVars, pcW,
                 pings, readerVars, cbInvoked, startNote, wire, disconnected>>

\* Disconnect from the Lock on, were it to send on stopChan without a look
\* at the connected flag
DisconnectBodyNoTest ==
  /\ pc = "lock"
  /\ call.op = "Disconnect"
  /\ mtx = "free"
  /\ pc' = "sendStop"
  /\ mtx' = "user"
  /\ UNCHANGED <<call, ret, msgID, callbacks>>
  /\ UNCHANGED <<ncalls, connVars, handlers, cfgVars, objVars, pcW, pings,
                 readerVars, cbInvoked, startNote, wire, disconnected>>

\* Disconnect from the Lock on: it goes on to send on stopChan, holding the
\* mutex
DisconnectBody ==
  /\ pc = "lock"
  /\ call.op = "Disconnect"
  /\ mtx = "free"
  /\ IF ~connected
     THEN Return("errNoConn")
     ELSE /\ pc' = "sendStop"
          /\ mtx' = "user"
          /\ UNCHANGED <<call, ret, msgID, callbacks>>
  /\ UNCHANGED <<ncalls, connVars, handlers, cfgVars, objVars, pcW, pings, readerVars,
                 cbInvoked, startNote, wire, disconnected>>

----------------------------------------------------------------------------
(* The writer task: Client.run and the deferred Client.close *)

\* Client.isPingable, were it not to look at the interval
isPingableAnyInterval == pingHandler

\* Client.isPingable
isPingable == pingHandler /\ pingInterval > 0

\* the user task's send on sendChan or stopChan has been received: the API
\* method returns nil and its deferred Unlock runs
SendReturns ==
  /\ pc' = "idle"
  /\ ret' = [op |-> call.op, err |-> "nil"]
  /\ call' = NoCall
  /\ mtx' = "free"

\* run, case msg := <-c.sendChan: the message is received and written to the
\* stream; a failed write leaves the loop
WriterSend ==
  /\ pcW = "select"
  /\ pc = "send"
  /\ SendReturns
  /\ \/ /\ connOpen
        /\ wire' = Append(wire, [mt |-> call.msg.mt, id |-> call.msg.id,
                                 part |-> "frame"])
        /\ UNCHANGED pcW
     \/ /\ pcW' = "closing"
        /\ UNCHANGED wire
  /\ UNCHANGED <<ncalls, connVars, handlers, callbacks, msgID, cfgVars, objVars, pings,
                 readerVars, cbInvoked, startNote, disconnected>>

\* run, case <-c.stopChan: the loop is left
WriterStop ==
  /\ pcW = "select"
  /\ pc = "sendStop"
  /\ SendReturns
  /\ disconnected' = TRUE
  /\ pcW' = "closing"
  /\ UNCHANGED <<ncalls, connVars, handlers, callbacks, msgID, cfgVars, objVars, pings,
                 readerVars, cbInvoked, startNote, wire>>

\* run, case now := <-pingTicker.C: the ticker is armed only when the client
\* is pingable; a Ping frame (message id 0) is written
WriterPing ==
  /\ pcW = "select"
  /\ isPingable
  /\ pings < MaxPings
  /\ pings' = pings + 1
  /\ IF ~pingHandler
     THEN UNCHANGED <<pcW, wire>>
     ELSE \/ /\ connOpen
             /\ wire' = Append(wire, [mt |-> "Ping", id |-> 0, part |-> "frame"])
             /\ UNCHANGED pcW
          \/ /\ pcW' = "closing"
             /\ UNCHANGED wire
  /\ UNCHANGED <<userVars, mtx, connVars, handlers, callbacks, msgID, cfgVars, objVars,
                 readerVars, cbInvoked, startNote>>

\* Client.close, were it to run every callback left in the table with an
\* error and empty the table
WriterCloseDrains ==
  /\ pcW = "closing"
  /\ mtx = "free"
  /\ pcW' = "exited"
  /\ IF ~connected
     THEN UNCHANGED <<connVars, callbacks, cbInvoked>>
     ELSE /\ connected' = FALSE
          /\ chanCloses' = chanCloses + 1
          /\ closeCalls' = closeCalls + 1
          /\ connOpen' = FALSE
          /\ callbacks' = [i \in {} |-> Nil]
          /\ cbInvoked' = [i \in FrameIDs |->
                             IF i \in DOMAIN callbacks /\ callbacks[i] # "start"
                             THEN Append(cbInvoked[i], "err")
                             ELSE cbInvoked[i]]
  /\ UNCHANGED <<userVars, mtx, handlers, msgID, cfgVars, objVars, pings,
                 readerVars, startNote, wire>>

\* Client.close, were it to run without the mutex
WriterCloseNoLock ==
  /\ pcW = "closing"
  /\ pcW' = "exited"
  /\ IF ~connected
     THEN UNCHANGED connVars
     ELSE /\ connected' = FALSE
          /\ chanCloses' = chanCloses + 1
          /\ closeCalls' = closeCalls + 1
          /\ connOpen' = FALSE
  /\ UNCHANGED <<userVars, mtx, handlers, callbacks, msgID, cfgVars, objVars, pings,
                 readerVars, cbInvoked, startNote, wire>>

\* Client.close, deferred by run: under the mutex, a connected client is
\* marked not connected, both channels are closed and the stream is closed
WriterClose ==
  /\ pcW = "closing"
  /\ mtx = "free"
  /\ pcW' = "exited"
  /\ IF ~connected
     THEN UNCHANGED connVars
     ELSE /\ connected' = FALSE
          /\ chanCloses' = chanCloses + 1
          /\ closeCalls' = closeCalls + 1
          /\ connOpen' = FALSE
  /\ UNCHANGED <<userVars, mtx, handlers, callbacks, msgID, cfgVars, objVars, pings,
                 readerVars, cbInvoked, startNote, wire>>

----------------------------------------------------------------------------
(* The reader task: Client.readConn *)

\* pusu.ReadMsg in readConn: on a closed stream the read fails; on an open
\* one it fails (EOF, bad magic, bad type byte) or returns a frame, drawn
\* from frames
ReaderRead(frames) ==
  /\ pcR = "reading"
  /\ \/ /\ pcR' = "exited"
        /\ UNCHANGED rxFrame
     \/ /\ connOpen
        /\ \E f \in frames : rxFrame' = f
        /\ pcR' = "dispatch"
  /\ UNCHANGED <<userVars, mtx, connVars, handlers, callbacks, msgID, cfgVars, objVars,
                 pcW, pings, invoked, cbInvoked, startNote, wire>>

\* Client.handlePublish: TRUE iff it goes on to callMsgHandlers; it returns
\* before that when Unmarshal returned a nil error
handlePublishDelivers(f) == ~f.ok

\* Client.handleMessageByType: TRUE iff it returns a nil error, so that
\* readConn stays in its loop
handledOK(f) ==
  CASE f.mt = "Error" -> FALSE
    [] f.mt = "Ack" -> TRUE
    [] f.mt = "Publish" -> TRUE
    [] f.mt = "Ping" -> ~pingHandler \/ f.ok
    [] OTHER -> FALSE

\* Client.callback: the callback for id, if any, is taken from the table and
\* run in a new goroutine with arg
RunCallback(id, arg) ==
  IF id \in DOMAIN callbacks
  THEN /\ callbacks' = getCallback(callbacks, id)
       /\ IF callbacks[id] = "start"
          THEN /\ startNote' = (IF arg = "nil" THEN "sendNil" ELSE "sendErr")
               /\ UNCHANGED cbInvoked
          ELSE /\ cbInvoked' = [cbInvoked EXCEPT ![id] = Append(@, arg)]
               /\ UNCHANGED startNote
  ELSE UNCHANGED <<callbacks, cbInvoked, startNote>>

\* another task is in addCallback, writing Client.callbacks: the connecting
\* task in writeStartMsg, or an API method registering a non-nil callback
tableWriter == pc = "writeStart" \/ (pc = "register" /\ call.cb # Nil)

\* the Go runtime has found two tasks in the same map at once and has ended
\* the process with a fatal error
Crash ==
  /\ pc' = "crashed"
  /\ pcW' = "crashed"
  /\ pcR' = "crashed"

\* readConn with a frame read: handleMessageByType and what follows it.  The
\* reader takes no lock for its read and delete of Client.callbacks; when
\* that overlaps another task's write of the map, the calls either take
\* effect one after the other or the runtime ends the process.  A reader
\* that leaves its loop keeps the frame that made it leave.
ReaderDispatch ==
  /\ pcR = "dispatch"
  /\ \/ /\ CASE rxFrame.mt = "Error" -> RunCallback(rxFrame.id, "err")
             [] rxFrame.mt = "Ack" -> RunCallback(rxFrame.id, "nil")
             [] OTHER -> UNCHANGED <<callbacks, cbInvoked, startNote>>
        /\ IF rxFrame.mt = "Publish" /\ handlePublishDelivers(rxFrame)
           THEN pcR' = "deliver" /\ UNCHANGED rxFrame
           ELSE IF handledOK(rxFrame)
           THEN pcR' = "reading" /\ rxFrame' = NoFrame
           ELSE pcR' = "exited" /\ UNCHANGED rxFrame
        /\ UNCHANGED <<pc, pcW>>
     \/ /\ rxFrame.mt \in {"Ack", "Error"}
        /\ tableWriter
        /\ Crash
        /\ UNCHANGED <<rxFrame, callbacks, cbInvoked, startNote>>
  /\ UNCHANGED <<call, ret, ncalls, disconnected, mtx, connVars, handlers,
                 msgID, cfgVars, objVars, pings, invoked, wire>>

\* callMsgHandlers, were it to call the handlers of the ancestors of t too
callMsgHandlersOfAncestors(hm, t, payload) ==
  LET callsFor(u) ==
        IF u \in DOMAIN hm
        THEN LET live == LiveInOrder(hm[u].handlersInOrder)
             IN [i \in 1 .. Len(live) |-> <<live[i], t, payload>>]
        ELSE <<>>
      chain == SubTopics(t)
      F[k \in 0 .. Len(chain)] ==
        IF k = 0 THEN <<>> ELSE F[k - 1] \o callsFor(chain[k])
  IN F[Len(chain)]

\* the loop of Client.callMsgHandlers: the handler calls made for topic t
callMsgHandlers(hm, t, payload) ==
  IF t \in DOMAIN hm
  THEN LET live == LiveInOrder(hm[t].handlersInOrder)
       IN [i \in 1 .. Len(live) |-> <<live[i], t, payload>>]
  ELSE <<>>

\* Client.callMsgHandlers: the mutex is taken and the handlers are called
ReaderDeliver ==
  /\ pcR = "deliver"
  /\ mtx = "free"
  /\ mtx' = "reader"
  /\ invoked' = callMsgHandlers(handlers, rxFrame.topic, rxFrame.data)
  /\ pcR' = "delivering"
  /\ UNCHANGED <<userVars, connVars, handlers, callbacks, msgID, cfgVars, objVars, pcW,
                 pings, rxFrame, cbInvoked, startNote, wire>>

\* the handlers have returned: callMsgHandlers unlocks and handlePublish
\* returns nil
ReaderDelivered ==
  /\ pcR = "delivering"
  /\ mtx' = "free"
  /\ invoked' = <<>>
  /\ rxFrame' = NoFrame
  /\ pcR' = "reading"
  /\ UNCHANGED <<userVars, connVars, handlers, callbacks, msgID, cfgVars, objVars, pcW,
                 pings, cbInvoked, startNote, wire>>

----------------------------------------------------------------------------
(* pusu.Message: the frame written to and read from the stream *)

\* MsgType is a uint8; MinMsgType and MaxMsgType bracket the valid types
MinMsgType == 0
MaxMsgType == 7

\* MaxMessagePayload = math.MaxUint16
MaxMessagePayload == 65535

\* a uint32 is modelled as its two 16-bit halves, [hi, lo], and a byte as a
\* number in 0 .. 255
U32(hi, lo) == [hi |-> hi, lo |-> lo]

\* A []byte, and the content of a bytes.Buffer, is a string of bytes, held
\* as the sequence of its runs: a run [b, n] is n bytes b in a row, n > 0, and
\* no two runs in a row are of the same byte.  Each string has one such
\* sequence, so that two strings are equal iff their sequences are.
Run(b, n) == [b |-> b, n |-> n]

\* len of a byte string
RECURSIVE BsLen(_)
BsLen(x) == IF x = <<>> THEN 0 ELSE x[1].n + BsLen(Tail(x))

\* append: the bytes of x followed by those of y
BsCat(x, y) ==
  IF x = <<>> THEN y
  ELSE IF y = <<>> THEN x
  ELSE IF x[Len(x)].b = y[1].b
  THEN SubSeq(x, 1, Len(x) - 1) \o <<Run(y[1].b, x[Len(x)].n + y[1].n)>>
       \o Tail(y)
  ELSE x \o y

\* the byte string of a sequence of bytes
RECURSIVE BsOf(_)
BsOf(q) ==
  IF q = <<>> THEN <<>>
  ELSE BsCat(BsOf(SubSeq(q, 1, Len(q) - 1)), <<Run(q[Len(q)], 1)>>)

\* x[:k], for k up to len(x)
RECURSIVE BsTake(_, _)
BsTake(x, k) ==
  IF k = 0 \/ x = <<>> THEN <<>>
  ELSE IF x[1].n <= k THEN <<x[1]>> \o BsTake(Tail(x), k - x[1].n)
  ELSE <<Run(x[1].b, k)>>

\* x[k:], for k up to len(x)
RECURSIVE BsDrop(_, _)
BsDrop(x, k) ==
  IF k = 0 \/ x = <<>> THEN x
  ELSE IF x[1].n <= k THEN BsDrop(Tail(x), k - x[1].n)
  ELSE <<Run(x[1].b, x[1].n - k)>> \o Tail(x)

\* x[i - 1], the i-th byte of x
RECURSIVE BsAt(_, _)
BsAt(x, i) == IF i <= x[1].n THEN x[1].b ELSE BsAt(Tail(x), i - x[1].n)

\* the first n bytes of x as a sequence of bytes
BsBytes(x, n) == [i \in 1 .. n |-> BsAt(x, i)]

\* magicID = 0xB0AD1CEA
magicID == U32(45229, 7402)

\* uint16(n): the conversion keeps the low 16 bits
uint16(n) == n % 65536

\* binary.LittleEndian on a 16-bit word, were the high byte to be read first
FromU16BE(b) == 256 * b[1] + b[2]

\* binary.LittleEndian: the two bytes of a 16-bit word, and the word of two
\* bytes
U16LE(v) == <<v % 256, v \div 256>>
FromU16LE(b) == b[1] + 256 * b[2]

\* binary.LittleEndian: the four bytes of a uint32, and the uint32 of four
\* bytes
U32LE(w) == U16LE(w.lo) \o U16LE(w.hi)
FromU32LE(b) == U32(FromU16LE(SubSeq(b, 3, 4)), FromU16LE(SubSeq(b, 1, 2)))

\* MsgType.Check, were it to test the lower limit only
CheckLowerOnly(mt) == IF mt <= MinMsgType THEN "tooSmall" ELSE "nil"

\* MsgType.Check
Check(mt) ==
  IF mt <= MinMsgType THEN "tooSmall"
  ELSE IF mt >= MaxMsgType THEN "tooLarge"
  ELSE "nil"

\* the size in bytes of a MsgID, an unsigned 32-bit number
MsgIDSize == 4

\* binary.Size of a msgHdr: Magic, MT, MsgID and PayloadSize
hdrSize == 4 + 1 + MsgIDSize + 2

\* writeLE of a msgHdr: its fields in order, each little-endian
writeLEHdr(hdr) ==
  BsOf(U32LE(hdr.Magic) \o <<hdr.MT>> \o U32LE(hdr.MsgID)
       \o U16LE(hdr.PayloadSize))

\* binary.Read of a msgHdr from its hdrSize bytes
readLEHdr(b) ==
  [Magic |-> FromU32LE(SubSeq(b, 1, 4)),
   MT |-> b[5],
   MsgID |-> FromU32LE(SubSeq(b, 6, 9)),
   PayloadSize |-> FromU16LE(SubSeq(b, 10, 11))]

ZeroHdr == [Magic |-> U32(0, 0), MT |-> 0, MsgID |-> U32(0, 0), PayloadSize |-> 0]
ZeroMessage == [MT |-> 0, MsgID |-> U32(0, 0), Payload |-> <<>>]

\* the test of the payload size in Write, were no payload to be too big
neverTooBig(payload) == FALSE

\* the test of the payload size in Write
tooBig(payload) == BsLen(payload) > MaxMessagePayload

\* the test of the magic number in readMsgHdr, were any number to pass
anyMagic(hdr) == FALSE

\* the test of the magic number in readMsgHdr
badMagic(hdr) == hdr.Magic # magicID

\* Message.Write to a bytes.Buffer, whose writes do not fail: the bytes
\* written and the error returned
Write(m) ==
  IF tooBig(m.Payload) THEN [out |-> <<>>, err |-> "tooBig"]
  ELSE IF Check(m.MT) # "nil" THEN [out |-> <<>>, err |-> Check(m.MT)]
  ELSE LET hdr == [Magic |-> magicID, MT |-> m.MT, MsgID |-> m.MsgID,
                   PayloadSize |-> uint16(BsLen(m.Payload))]
       IN IF hdr.PayloadSize = 0
          THEN [out |-> writeLEHdr(hdr), err |-> "nil"]
          ELSE [out |-> BsCat(writeLEHdr(hdr), m.Payload), err |-> "nil"]

\* readMsgHdr on a reader holding bytes b: the header, the error and the
\* bytes left in the reader.  A read that finds fewer than hdrSize bytes
\* takes them all and fails.
readMsgHdr(b) ==
  IF BsLen(b) < hdrSize
  THEN [hdr |-> ZeroHdr, err |-> "hdrRead", rest |-> <<>>]
  ELSE LET hdr == readLEHdr(BsBytes(b, hdrSize))
           rest == BsDrop(b, hdrSize)
       IN [hdr |-> hdr, rest |-> rest,
           err |-> IF badMagic(hdr) THEN "badMagic"
                   ELSE IF Check(hdr.MT) # "nil" THEN "badType"
                   ELSE "nil"]

\* readMsgPayload, were it to take all there is in the reader
readMsgPayloadToEnd(b, n) ==
  IF BsLen(b) < n
  THEN [payload |-> BsCat(b, <<Run(0, n - BsLen(b))>>), err |-> "payloadRead",
        rest |-> <<>>]
  ELSE [payload |-> BsTake(b, n), err |-> "nil", rest |-> <<>>]

\* readMsgPayload for n bytes on a reader holding bytes b: io.ReadFull fills
\* the buffer with what there is and fails when that is too little
readMsgPayload(b, n) ==
  IF BsLen(b) < n
  THEN [payload |-> BsCat(b, <<Run(0, n - BsLen(b))>>), err |-> "payloadRead",
        rest |-> <<>>]
  ELSE [payload |-> BsTake(b, n), err |-> "nil", rest |-> BsDrop(b, n)]

\* ReadMsg on a reader holding bytes b
ReadMsg(b) ==
  LET h == readMsgHdr(b)
  IN IF h.err # "nil"
     THEN [msg |-> ZeroMessage, err |-> h.err, rest |-> h.rest]
     ELSE IF h.hdr.PayloadSize > 0
     THEN LET p == readMsgPayload(h.rest, h.hdr.PayloadSize)
          IN [msg |-> [MT |-> h.hdr.MT, MsgID |-> h.hdr.MsgID,
                       Payload |-> p.payload],
              err |-> p.err, rest |-> p.rest]
     ELSE [msg |-> [MT |-> h.hdr.MT, MsgID |-> h.hdr.MsgID, Payload |-> <<>>],
           err |-> "nil", rest |-> h.rest]

\* the message types tried: the two limits, their neighbours and the
\* largest uint8
MsgTypes == {MinMsgType, MinMsgType + 1, MaxMsgType - 1, MaxMsgType,
             MaxMsgType + 1, 255}
\* the 16-bit words and the message ids tried: 0, 2^32 - 1 and ids with a
\* low and a high byte in each half
Words == {0, 1, 255, 256, 65535}
MsgIDs == {U32(hi, lo) : hi \in Words, lo \in Words}
Bytes == {0, 171, 255}
\* the byte strings of up to n bytes
ByteSeqs(n) == {BsOf(q) : q \in UNION {[1 .. k -> Bytes] : k \in 0 .. n}}
\* the very long payloads: one byte less than the longest allowed, the
\* longest allowed, and one byte more, of one byte repeated or ending in
\* another byte
LongPayloads ==
  UNION {{<<Run(171, n)>>, <<Run(0, n - 1), Run(255, 1)>>} :
           n \in {MaxMessagePayload - 1, MaxMessagePayload,
                  MaxMessagePayload + 1}}
\* the messages given to Write
Messages ==
  [MT : MsgTypes, MsgID : MsgIDs, Payload : ByteSeqs(MaxShort)]
  \cup [MT : MsgTypes, MsgID : {U32(0, 42), U32(65535, 65535)},
        Payload : LongPayloads]

\* the hand-made buffers (makeBadBuf of the tests): a header with any magic
\* number, type and payload size, followed by some bytes, or the first
\* bytes of that
RawHdrs ==
  [Magic : {magicID, U32(magicID.hi, magicID.lo + 1), U32(0, 0)},
   MT : MsgTypes,
   MsgID : {U32(0, 42)},
   PayloadSize : 0 .. MaxShort + 1]
RawBufs ==
  {BsTake(BsCat(writeLEHdr(h), t), n) :
     h \in RawHdrs, t \in ByteSeqs(MaxShort),
     n \in {0, 4, hdrSize - 1, hdrSize, hdrSize + MaxShort}}

\* a test makes a new buffer and has a message write itself to it
WriteMessage ==
  /\ buf = <<>> /\ wr = NoIO /\ rd = NoIO
  /\ \E m \in Messages :
       /\ wr' = [msg |-> m, err |-> Write(m).err]
       /\ buf' = Write(m).out
  /\ UNCHANGED <<rd, sent, recvd, setVars, topicVars, mcb>>
  /\ UNCHANGED <<userVars, mtx, connVars, handlers, callbacks, msgID, cfgVars,
                 pcW, pings, readerVars, cbInvoked, startNote, wire>>

\* a test makes a buffer by hand
MakeBadBuf ==
  /\ buf = <<>> /\ wr = NoIO /\ rd = NoIO
  /\ \E b \in RawBufs \ {<<>>} : buf' = b
  /\ UNCHANGED <<wr, rd, sent, recvd, setVars, topicVars, mcb>>
  /\ UNCHANGED <<userVars, mtx, connVars, handlers, callbacks, msgID, cfgVars,
                 pcW, pings, readerVars, cbInvoked, startNote, wire>>

\* a test calls ReadMsg on its buffer
ReadBuffer ==
  /\ rd = NoIO
  /\ rd' = [msg |-> ReadMsg(buf).msg, err |-> ReadMsg(buf).err]
  /\ buf' = ReadMsg(buf).rest
  /\ UNCHANGED <<wr, sent, recvd, setVars, topicVars, mcb>>
  /\ UNCHANGED <<userVars, mtx, connVars, handlers, callbacks, msgID, cfgVars,
                 pcW, pings, readerVars, cbInvoked, startNote, wire>>

\* the test is over: the next one starts with nothing
NextTest ==
  /\ rd # NoIO
  /\ buf' = <<>> /\ wr' = NoIO /\ rd' = NoIO
  /\ UNCHANGED <<sent, recvd, setVars, topicVars, mcb>>
  /\ UNCHANGED <<userVars, mtx, connVars, handlers, callbacks, msgID, cfgVars,
                 pcW, pings, readerVars, cbInvoked, startNote, wire>>

\* the messages written to a stream: with no payload, a short and the
\* longest payload, of a valid type or not
StreamPayloads == {<<>>, BsOf(<<171>>), BsOf(<<0, 255>>),
                   <<Run(171, MaxMessagePayload)>>}
StreamMessages ==
  [MT : {MinMsgType + 1, MaxMsgType - 1, MaxMsgType},
   MsgID : {U32(0, 42), U32(65535, 65535)},
   Payload : StreamPayloads]

\* a message writes itself to the stream, after those written before; a
\* Write that fails has written nothing
StreamWrite ==
  /\ Len(sent) < MaxStream
  /\ recvd = <<>>
  /\ \E m \in StreamMessages :
       /\ buf' = BsCat(buf, Write(m).out)
       /\ sent' = IF Write(m).err = "nil" THEN Append(sent, m) ELSE sent
  /\ UNCHANGED <<wr, rd, recvd, setVars, topicVars, mcb>>
  /\ UNCHANGED <<userVars, mtx, connVars, handlers, callbacks, msgID, cfgVars,
                 pcW, pings, readerVars, cbInvoked, startNote, wire>>

\* ReadMsg is called on the stream, until a call fails
StreamRead ==
  /\ Len(recvd) <= Len(sent)
  /\ IF recvd = <<>> THEN TRUE ELSE recvd[Len(recvd)].err = "nil"
  /\ LET r == ReadMsg(buf)
     IN /\ recvd' = Append(recvd, [msg |-> r.msg, err |-> r.err,
                                   used |-> BsLen(buf) - BsLen(r.rest)])
        /\ buf' = r.rest
  /\ UNCHANGED <<wr, rd, sent, setVars, topicVars, mcb>>
  /\ UNCHANGED <<userVars, mtx, connVars, handlers, callbacks, msgID, cfgVars,
                 pcW, pings, readerVars, cbInvoked, startNote, wire>>

----------------------------------------------------------------------------
(* Specifications *)

Next ==
  \/ ConnectDial
  \/ WriteStartHdr
  \/ WriteStartPayload
  \/ StartCheckAck
  \/ StartCheckTimeout
  \/ CallSubscribe(MaxCalls, OneLists)
  \/ SubscribeBody
  \/ CallUnsubscribe(MaxCalls, OneLists)
  \/ UnsubscribeBody
  \/ CallPublish(MaxCalls)
  \/ PublishBody
  \/ CallDisconnect(MaxCalls)
  \/ DisconnectBody
  \/ Register
  \/ WriterSend
  \/ WriterStop
  \/ WriterClose
  \/ ReaderRead(Frames)
  \/ ReaderDispatch
  \/ ReaderDeliver
  \/ ReaderDelivered

Spec == Init /\ [][Next]_vars

\* The client in the running state: Connect has returned nil (the Start
\* frame, id 1, was written and acknowledged) and no API call has been made
InitRunning ==
  /\ pc = "idle"
  /\ call = NoCall
  /\ ret = [op |-> "Connect", err |-> "nil"]
  /\ ncalls = 0
  /\ mtx = "free"
  /\ connected = TRUE
  /\ connOpen = TRUE
  /\ closeCalls = 0
  /\ chanCloses = 0
  /\ handlers = [t \in {} |-> newHandlerSet]
  /\ callbacks = [i \in {} |-> Nil]
  /\ msgID = 1
  /\ pingHandler = FALSE
  /\ pingInterval = dfltPingIntervalSecs
  /\ pcW = "select"
  /\ pings = 0
  /\ pcR = "reading"
  /\ rxFrame = NoFrame
  /\ invoked = <<>>
  /\ cbInvoked = [i \in FrameIDs |-> <<>>]
  /\ startNote = "done"
  /\ wire = <<[mt |-> "Start", id |-> 1, part |-> "hdr"],
              [mt |-> "Start", id |-> 1, part |-> "payload"]>>
  /\ disconnected = FALSE
  /\ ObjInit

\* The running client under API calls with (topic, handler) lists of up to
\* MaxPairs entries; the broker sends nothing, so the reader task stays
\* blocked in its read
NextAPI ==
  \/ CallSubscribe(MaxAPICalls, PairLists)
  \/ SubscribeBody
  \/ CallUnsubscribe(MaxAPICalls, PairLists)
  \/ UnsubscribeBody
  \/ CallPublish(MaxAPICalls)
  \/ PublishBody
  \/ CallDisconnect(MaxAPICalls)
  \/ DisconnectBody
  \/ Register
  \/ WriterSend
  \/ WriterStop
  \/ WriterClose

SpecAPI == InitRunning /\ [][NextAPI]_vars

\* makeClient with the ConnInfo of NewConnInfo(f), f a ping handler: the
\* client is pingable
InitPing ==
  /\ pc = "new"
  /\ call = NoCall
  /\ ret = NoRet
  /\ ncalls = 0
  /\ mtx = "free"
  /\ connected = FALSE
  /\ connOpen = FALSE
  /\ closeCalls = 0
  /\ chanCloses = 0
  /\ handlers = [t \in {} |-> newHandlerSet]
  /\ callbacks = [i \in {} |-> Nil]
  /\ msgID = 0
  /\ pingHandler = TRUE
  /\ pingInterval = dfltPingIntervalSecs
  /\ pcW = "none"
  /\ pings = 0
  /\ pcR = "none"
  /\ rxFrame = NoFrame
  /\ invoked = <<>>
  /\ cbInvoked = [i \in FrameIDs |-> <<>>]
  /\ startNote = "none"
  /\ wire = <<>>
  /\ disconnected = FALSE
  /\ ObjInit

\* The pingable client: Connect, then Publish and Disconnect calls, with the
\* ping ticker running in the writer
NextPing ==
  \/ ConnectDial
  \/ WriteStartHdr
  \/ WriteStartPayload
  \/ StartCheckAck
  \/ StartCheckTimeout
  \/ CallPublish(MaxCalls)
  \/ PublishBody
  \/ CallDisconnect(MaxCalls)
  \/ DisconnectBody
  \/ Register
  \/ WriterSend
  \/ WriterStop
  \/ WriterPing
  \/ WriterClose
  \/ ReaderRead(Frames)
  \/ ReaderDispatch
  \/ ReaderDeliver
  \/ ReaderDelivered

SpecPing == InitPing /\ [][NextPing]_vars

\* the values a caller can leave or put in ConnInfo.PingInterval (an
\* exported field): negative, zero, the default
PingIntervals == {-1, 0, dfltPingIntervalSecs}

\* makeClient with any ConnInfo: NewConnInfo(nil) or NewConnInfo(f), and any
\* PingInterval
InitAnyPing ==
  /\ pc = "new"
  /\ call = NoCall
  /\ ret = NoRet
  /\ ncalls = 0
  /\ mtx = "free"
  /\ connected = FALSE
  /\ connOpen = FALSE
  /\ closeCalls = 0
  /\ chanCloses = 0
  /\ handlers = [t \in {} |-> newHandlerSet]
  /\ callbacks = [i \in {} |-> Nil]
  /\ msgID = 0
  /\ pingHandler \in BOOLEAN
  /\ pingInterval \in PingIntervals
  /\ pcW = "none"
  /\ pings = 0
  /\ pcR = "none"
  /\ rxFrame = NoFrame
  /\ invoked = <<>>
  /\ cbInvoked = [i \in FrameIDs |-> <<>>]
  /\ startNote = "none"
  /\ wire = <<>>
  /\ disconnected = FALSE
  /\ ObjInit

\* The client with any ping configuration, under the steps of SpecPing
SpecAnyPing == InitAnyPing /\ [][NextPing]_vars

\* the lists of one valid (topic, handler) pair
ValidOneLists == {<<p>> : p \in [topic : ValidTopics, handler : Handlers]}

\* the Publish frames the broker can send
PublishFrames == {f \in Frames : f.mt = "Publish" /\ f.topic \in ValidTopics
                                   /\ f.data \in Payloads}

\* The running client under Subscribe and Unsubscribe calls of one pair
\* each, while the broker sends Publish frames
NextDeliver ==
  \/ CallSubscribe(MaxSubCalls, ValidOneLists)
  \/ SubscribeBody
  \/ CallUnsubscribe(MaxSubCalls, ValidOneLists)
  \/ UnsubscribeBody
  \/ Register
  \/ WriterSend
  \/ WriterClose
  \/ ReaderRead(PublishFrames)
  \/ ReaderDispatch
  \/ ReaderDeliver
  \/ ReaderDelivered

SpecDeliver == InitRunning /\ [][NextDeliver]_vars

\* topics of one tree: the root, a child and a grandchild
TreeTopics == {<<"/">>, <<"/", "a">>, <<"/", "a", "/", "b">>}

\* the lists of one valid pair over the topics of the tree
TreeOneLists == {<<p>> : p \in [topic : TreeTopics, handler : Handlers]}

\* the Publish frames the broker can send for the topics of the tree, with
\* a payload that unmarshals or does not
TreeFrames == [mt : {"Publish"}, id : {0}, ok : BOOLEAN,
               topic : TreeTopics, data : Payloads]

\* The running client under Subscribe calls on the topics of the tree, while
\* the broker sends Publish frames for them
NextTree ==
  \/ CallSubscribe(MaxTreeCalls, TreeOneLists)
  \/ SubscribeBody
  \/ Register
  \/ WriterSend
  \/ WriterClose
  \/ ReaderRead(TreeFrames)
  \/ ReaderDispatch
  \/ ReaderDeliver
  \/ ReaderDelivered

SpecTree == InitRunning /\ [][NextTree]_vars

\* A MsgHandler, called by callMsgHandlers in the reader task, calls
\* Publish, Subscribe or Unsubscribe on the Client it was registered with.
\* The call is made by entry k of the handler calls of the delivery; the
\* handlers after it have not been called yet.  The method runs in the
\* reader task, in the call slot of the model (pc, call, ret): Publish with
\* a topic that fails Check, and Subscribe or Unsubscribe with no pair, return
\* at once; any other call goes on to c.mtx.Lock()
HandlerCalls(n) ==
  /\ pcR = "delivering"
  /\ invoked # <<>>
  /\ pc = "idle"
  /\ ncalls < n
  /\ ncalls' = ncalls + 1
  /\ pcR' = "inHandler"
  /\ \E k \in 1 .. Len(invoked) : invoked' = SubSeq(invoked, 1, k)
  /\ \/ \E cb \in Callbacks, topic \in ArgTopics, payload \in Payloads :
          IF ~TopicCheck(topic)
          THEN /\ ret' = [op |-> "Publish", err |-> "badTopic"]
               /\ UNCHANGED <<pc, call>>
          ELSE /\ pc' = "lock"
               /\ call' = [op |-> "Publish", cb |-> cb, list |-> <<>>,
                           msg |-> [NoMsg EXCEPT !.topics = <<topic>>,
                                                 !.data = payload]]
               /\ ret' = NoRet
     \/ \E op \in {"Subscribe", "Unsubscribe"} :
          \/ /\ ret' = [op |-> op, err |-> "nil"]
             /\ UNCHANGED <<pc, call>>
          \/ /\ pc' = "lock"
             /\ \E cb \in Callbacks, list \in ValidOneLists :
                  call' = [op |-> op, cb |-> cb, list |-> list, msg |-> NoMsg]
             /\ ret' = NoRet
  /\ UNCHANGED <<mtx, connVars, handlers, callbacks, msgID, cfgVars, objVars,
                 pcW, pings, rxFrame, cbInvoked, startNote, wire, disconnected>>

\* the method called by the handler has returned and so has the handler: the
\* loop of callMsgHandlers goes on through the rest of handlersInOrder
HandlerReturns ==
  /\ pcR = "inHandler"
  /\ pc = "idle"
  /\ pcR' = "delivering"
  /\ invoked' = callMsgHandlers(handlers, rxFrame.topic, rxFrame.data)
  /\ UNCHANGED <<userVars, mtx, connVars, handlers, callbacks, msgID, cfgVars,
                 objVars, pcW, pings, rxFrame, cbInvoked, startNote, wire>>

\* the user task calls Subscribe; the model has one call slot, so the user
\* task starts no call while the call of a handler is in it
UserSubscribe ==
  /\ pcR # "inHandler"
  /\ CallSubscribe(MaxHandlerCalls, ValidOneLists)

\* the user task calls Unsubscribe
UserUnsubscribe ==
  /\ pcR # "inHandler"
  /\ CallUnsubscribe(MaxHandlerCalls, ValidOneLists)

\* the user task calls Publish
UserPublish ==
  /\ pcR # "inHandler"
  /\ CallPublish(MaxHandlerCalls)

\* The running client with handlers that call the client's API, while the
\* broker sends Publish frames
NextHandlerCall ==
  \/ UserSubscribe
  \/ UserUnsubscribe
  \/ UserPublish
  \/ SubscribeBody
  \/ UnsubscribeBody
  \/ PublishBody
  \/ Register
  \/ WriterSend
  \/ WriterClose
  \/ ReaderRead(PublishFrames)
  \/ ReaderDispatch
  \/ ReaderDeliver
  \/ ReaderDelivered
  \/ HandlerCalls(MaxHandlerCalls)
  \/ HandlerReturns

SpecHandlerCall == InitRunning /\ [][NextHandlerCall]_vars

\* the handlers given to a handlerSet used on its own
SetHandlers == {"h1", "h2", "h3"}

\* addHandler is called on the handlerSet, with a handler that is not nil
\* (Client.addHandler, the one caller, has refused a nil handler before)
SetAddHandler ==
  /\ hops < MaxSetOps
  /\ hops' = hops + 1
  /\ \E h \in SetHandlers :
       LET r == hsAddHandler(hset, h)
       IN /\ hset' = r.hs
          /\ hres' = [op |-> "add", h |-> h,
                      err |-> IF r.err THEN "alreadyAdded" ELSE "nil"]
  /\ UNCHANGED <<codecVars, topicVars, mcb>>
  /\ UNCHANGED <<userVars, mtx, connVars, handlers, callbacks, msgID, cfgVars,
                 pcW, pings, readerVars, cbInvoked, startNote, wire>>

\* removeHandler is called on the handlerSet, with any handler or nil
SetRemoveHandler ==
  /\ hops < MaxSetOps
  /\ hops' = hops + 1
  /\ \E h \in SetHandlers \cup {Nil} :
       LET r == hsRemoveHandler(hset, h)
       IN /\ hset' = r.hs
          /\ hres' = [op |-> "remove", h |-> h,
                      err |-> IF r.err THEN "notInSet" ELSE "nil"]
  /\ UNCHANGED <<codecVars, topicVars, mcb>>
  /\ UNCHANGED <<userVars, mtx, connVars, handlers, callbacks, msgID, cfgVars,
                 pcW, pings, readerVars, cbInvoked, startNote, wire>>

\* A handlerSet under addHandler and removeHandler calls, with no Client in
\* use
NextSet == SetAddHandler \/ SetRemoveHandler

SpecSet == Init /\ [][NextSet]_vars

\* Messages written back to back to one stream and read from it
NextStream == StreamWrite \/ StreamRead

SpecStream == Init /\ [][NextStream]_vars

\* the strings given as topics: all those of up to MaxTopicLen characters
\* out of a slash, a dot and two letters
TopicChars == {"/", ".", "a", "b"}
TopicStrings == UNION {[1 .. n -> TopicChars] : n \in 0 .. MaxTopicLen}

\* Check is called on a topic
CheckTopic ==
  /\ tchk = "none"
  /\ \E t \in TopicStrings :
       /\ tstr' = t
       /\ tchk' = IF TopicCheck(t) THEN "nil" ELSE "badTopic"
  /\ UNCHANGED <<tsub, codecVars, setVars, mcb>>
  /\ UNCHANGED <<userVars, mtx, connVars, handlers, callbacks, msgID, cfgVars,
                 pcW, pings, readerVars, cbInvoked, startNote, wire>>

\* SubTopics is called on the topic
ListSubTopics ==
  /\ tchk # "none"
  /\ tsub = <<>>
  /\ tsub' = SubTopics(tstr)
  /\ UNCHANGED <<tstr, tchk, codecVars, setVars, mcb>>
  /\ UNCHANGED <<userVars, mtx, connVars, handlers, callbacks, msgID, cfgVars,
                 pcW, pings, readerVars, cbInvoked, startNote, wire>>

\* the next topic is taken up
NextTopic ==
  /\ tsub # <<>>
  /\ tstr' = NoTopic
  /\ tchk' = "none"
  /\ tsub' = <<>>
  /\ UNCHANGED <<codecVars, setVars, mcb>>
  /\ UNCHANGED <<userVars, mtx, connVars, handlers, callbacks, msgID, cfgVars,
                 pcW, pings, readerVars, cbInvoked, startNote, wire>>

\* Topics checked and listed, with no Client in use
NextTopics == CheckTopic \/ ListSubTopics \/ NextTopic

SpecTopic == Init /\ [][NextTopics]_vars

\* the values given to MakeCallback, and the errors a Callback is run with
CallbackValues == {"v1", "v2"}
CallbackErrs == {"nil", "err"}

\* MakeCallback(c, v) is called
MakeCallback ==
  /\ mcb.v = Nil
  /\ \E v \in CallbackValues : mcb' = [mcb EXCEPT !.v = v]
  /\ UNCHANGED <<codecVars, setVars, topicVars>>
  /\ UNCHANGED <<userVars, mtx, connVars, handlers, callbacks, msgID, cfgVars,
                 pcW, pings, readerVars, cbInvoked, startNote, wire>>

\* the Callback is run with err and returns: for a nil err it has started a
\* goroutine that sends v on c
InvokeCallback ==
  /\ mcb.v # Nil
  /\ Len(mcb.calls) < MaxInvokes
  /\ \E err \in CallbackErrs :
       mcb' = [mcb EXCEPT !.calls = Append(@, err),
                          !.senders = IF err = "nil" THEN @ + 1 ELSE @]
  /\ UNCHANGED <<codecVars, setVars, topicVars>>
  /\ UNCHANGED <<userVars, mtx, connVars, handlers, callbacks, msgID, cfgVars,
                 pcW, pings, readerVars, cbInvoked, startNote, wire>>

\* some task receives from c: the send of one of the goroutines completes
ChanReceive ==
  /\ mcb.senders > 0
  /\ mcb' = [mcb EXCEPT !.senders = @ - 1, !.got = Append(@, mcb.v)]
  /\ UNCHANGED <<codecVars, setVars, topicVars>>
  /\ UNCHANGED <<userVars, mtx, connVars, handlers, callbacks, msgID, cfgVars,
                 pcW, pings, readerVars, cbInvoked, startNote, wire>>

\* A Callback of MakeCallback run by one task while another receives from
\* its channel, with no Client in use
NextCallback == MakeCallback \/ InvokeCallback \/ ChanReceive

SpecCallback == Init /\ [][NextCallback]_vars

\* Messages written to and read from buffers, with no Client in use
NextCodec == WriteMessage \/ MakeBadBuf \/ ReadBuffer \/ NextTest

SpecCodec == Init /\ [][NextCodec]_vars

\* The steps each task takes by itself once it can: a call in progress goes
\* on, the writer receives what is sent to it and runs its deferred close,
\* the reader handles the frame it has read and finds a closed stream closed.
\* Whether the user makes another call and whether the broker sends another
\* frame is left open.
UserSteps ==
  \/ ConnectDial
  \/ WriteStartHdr
  \/ WriteStartPayload
  \/ StartCheckAck
  \/ StartCheckTimeout
  \/ SubscribeBody
  \/ UnsubscribeBody
  \/ PublishBody
  \/ DisconnectBody
  \/ Register

WriterSteps == WriterSend \/ WriterStop \/ WriterClose

ReaderSteps ==
  \/ (~connOpen /\ ReaderRead(Frames))
  \/ ReaderDispatch
  \/ ReaderDeliver
  \/ ReaderDelivered

TaskSteps == UserSteps \/ WriterSteps \/ ReaderSteps

----------------------------------------------------------------------------
(* Properties *)

\* C1: when the reader handles a well-formed Publish frame for a topic that
\* has a live handler, it goes on to call the handlers of the topic: it does
\* not go back to its read, or leave its loop, without having called them.
C1_PublishDelivered ==
  [][(/\ pcR = "dispatch"
      /\ rxFrame.mt = "Publish"
      /\ rxFrame.ok
      /\ rxFrame.topic \in DOMAIN handlers
      /\ pcR' # "dispatch") => pcR' = "deliver"]_vars

\* the reader has read a well-formed Publish frame for a topic with a live
\* handler
C1_PublishReceived ==
  /\ pcR = "dispatch"
  /\ rxFrame.mt = "Publish"
  /\ rxFrame.ok
  /\ rxFrame.topic \in DOMAIN handlers
  /\ LiveInOrder(handlers[rxFrame.topic].handlersInOrder) # <<>>

\* C2: once a Disconnect call has returned nil, no later Publish, Subscribe
\* or Unsubscribe call gets past the connected test: none allocates an id,
\* registers a callback or goes on to send a message to the writer.
C2_NoSubmitAfterDisconnect ==
  disconnected => pc \notin {"register", "send"}

\* Disconnect has returned nil and the user task has made a further call,
\* which is at its Lock
C2_CallAfterDisconnect ==
  /\ disconnected
  /\ pc = "lock"
  /\ call.op \in {"Publish", "Subscribe", "Unsubscribe"}

\* C3: an Error frame does not stop the reader: having handled it, the
\* reader goes back to its read.
C3_ErrorKeepsReading ==
  [][(/\ pcR = "dispatch"
      /\ rxFrame.mt = "Error"
      /\ pcR' \notin {"dispatch", "crashed"}) => pcR' = "reading"]_vars

\* the reader has read an Error frame for the id of an API call whose
\* callback is registered
C3_ErrorReceived ==
  /\ pcR = "dispatch"
  /\ rxFrame.mt = "Error"
  /\ rxFrame.id \in DOMAIN callbacks
  /\ callbacks[rxFrame.id] = "user"

\* C4: when the reader of a client that Connect has handed out has left its
\* loop because a read failed or because the frame read has a type it does
\* not expect, and no task can take a further step by itself, the
\* connection has been terminated: the client is not connected, the stream
\* is closed and the writer has exited.
C4_ReaderFailureTerminates ==
  (/\ pc = "idle"
   /\ pcR = "exited"
   /\ rxFrame.mt \notin {"Ack", "Error", "Publish", "Ping"}
   /\ ~ENABLED TaskSteps)
    => (~connected /\ ~connOpen /\ pcW = "exited")

\* the reader has left its loop on a frame of an unexpected type while the
\* client is connected
C4_ReaderLeft ==
  /\ pc = "idle"
  /\ pcR = "exited"
  /\ rxFrame.mt \in {"Start", "Subscribe", "Unsubscribe"}
  /\ connected

\* C5: when Connect has returned the start-timed-out error and no task can
\* take a further step by itself, the connection has been closed: the stream
\* is closed, the client is not connected and both the writer and the reader
\* have exited.
C5_TimeoutCloses ==
  (pc = "done" /\ ret.err = "startTimedOut" /\ ~ENABLED TaskSteps)
    => (~connOpen /\ ~connected /\ pcW = "exited" /\ pcR = "exited")

\* Connect has returned the start-timed-out error
C5_TimedOut == pc = "done" /\ ret.err = "startTimedOut"

\* C6: whenever Connect has returned an error after the dial succeeded, the
\* stream has been closed.
C6_FailedConnectCloses ==
  (/\ pc = "done"
   /\ ret.op = "Connect"
   /\ ret.err \in {"startWriteFailed", "serverError", "startTimedOut"})
    => ~connOpen

\* Connect has returned the error of an Error frame sent for the Start
\* message
C6_StartRefused == pc = "done" /\ ret.err = "serverError"

\* the set of the elements of a sequence
Range(q) == {q[i] : i \in 1 .. Len(q)}

\* the handlers a (topic, handler) list names for topic t
Named(list, t) == {list[i].handler : i \in {j \in 1 .. Len(list) : list[j].topic = t}}

\* the handlers that are live for topic t in handler map hm
Live(hm, t) ==
  IF t \in DOMAIN hm THEN Range(LiveInOrder(hm[t].handlersInOrder)) ELSE {}

\* C7: a Subscribe call on a connected client that does not fail hands the
\* writer one Subscribe message, with a newly allocated id, whose topic list
\* holds exactly the topics that had no entry in the handler map before the
\* call and have one after it, each once; when there is no such topic the
\* call returns nil having allocated no id and registered no callback.  A
\* message handed to the writer becomes at most one frame on the stream.
C7_SubscribeFrame ==
  [][/\ (/\ pc = "lock"
         /\ call.op = "Subscribe"
         /\ connected
         /\ pc' # "lock"
         /\ ~(pc' = "idle" /\ ret'.err = "addFailed"))
        => LET new == DOMAIN handlers' \ DOMAIN handlers
           IN IF new = {}
              THEN /\ pc' = "idle"
                   /\ ret' = [op |-> "Subscribe", err |-> "nil"]
                   /\ msgID' = msgID
                   /\ callbacks' = callbacks
              ELSE /\ pc' = "register"
                   /\ call'.msg.mt = "Subscribe"
                   /\ call'.msg.id = msgID + 1
                   /\ msgID' = msgID + 1
                   /\ Range(call'.msg.topics) = new
                   /\ Len(call'.msg.topics) = Cardinality(new)
     /\ (pc = "send" /\ call.op = "Subscribe" /\ pc' # "send")
        => /\ ret' = [op |-> "Subscribe", err |-> "nil"]
           /\ \/ wire' = wire
              \/ wire' = Append(wire, [mt |-> "Subscribe", id |-> call.msg.id,
                                       part |-> "frame"])]_vars

\* a Subscribe call for a topic that has a handler already and for a topic
\* that has none is sending its message, which names the second topic alone
C7_OneNewTopic ==
  /\ pc = "send"
  /\ call.op = "Subscribe"
  /\ Len(call.list) = 2
  /\ call.list[1].topic # call.list[2].topic
  /\ Len(call.msg.topics) = 1
  /\ Cardinality(DOMAIN handlers) = 2

\* C8: an Unsubscribe call on a connected client that does not fail removes
\* from the handler map exactly the topics all of whose live handlers the
\* call names, and hands the writer one Unsubscribe message, with a newly
\* allocated id, whose topic list holds exactly those topics, each once; a
\* topic that keeps a live handler stays in the map with the handlers the
\* call does not name, and when no topic loses its last handler the call
\* returns nil having allocated no id and registered no callback.
C8_UnsubscribeFrame ==
  [][(/\ pc = "lock"
      /\ call.op = "Unsubscribe"
      /\ connected
      /\ pc' # "lock"
      /\ ~(pc' = "idle" /\ ret'.err = "removeFailed"))
       => LET gone == {t \in DOMAIN handlers :
                        Live(handlers, t) \subseteq Named(call.list, t)}
          IN /\ DOMAIN handlers' = DOMAIN handlers \ gone
             /\ \A t \in DOMAIN handlers' :
                  /\ Live(handlers', t) = Live(handlers, t) \ Named(call.list, t)
                  /\ Live(handlers', t) # {}
             /\ IF gone = {}
                THEN /\ pc' = "idle"
                     /\ ret' = [op |-> "Unsubscribe", err |-> "nil"]
                     /\ msgID' = msgID
                     /\ callbacks' = callbacks
                ELSE /\ pc' = "register"
                     /\ call'.msg.mt = "Unsubscribe"
                     /\ call'.msg.id = msgID + 1
                     /\ msgID' = msgID + 1
                     /\ Range(call'.msg.topics) = gone
                     /\ Len(call'.msg.topics) = Cardinality(gone)]_vars

\* an Unsubscribe call has removed one of the two handlers of a topic and
\* has returned nil without a message: the topic keeps the other handler
C8_HandlerLeft ==
  /\ pc = "idle"
  /\ ret = [op |-> "Unsubscribe", err |-> "nil"]
  /\ wire[Len(wire)].mt = "Subscribe"
  /\ \E t \in DOMAIN handlers :
       /\ handlerCount(handlers[t]) = 1
       /\ Len(handlers[t].handlersInOrder) = 2

\* C9: when the reader handles an Ack or Error frame bearing id X and a
\* callback is registered for X, the callback is removed from the table and
\* run once, with nil for an Ack and with the server's error for an Error,
\* and it has not been run before; when no callback is registered for X
\* (none ever was, or an earlier frame bearing X has taken it) nothing is
\* run and the table is left as it is.
C9_CallbackOnce ==
  [][(/\ pcR = "dispatch"
      /\ rxFrame.mt \in {"Ack", "Error"}
      /\ pcR' # "dispatch")
       => LET X == rxFrame.id
              arg == IF rxFrame.mt = "Ack" THEN "nil" ELSE "err"
          IN IF X \in DOMAIN callbacks
             THEN /\ callbacks' = [k \in DOMAIN callbacks \ {X} |-> callbacks[k]]
                  /\ IF callbacks[X] = "start"
                     THEN /\ startNote = "none"
                          /\ startNote' = (IF arg = "nil" THEN "sendNil"
                                           ELSE "sendErr")
                          /\ cbInvoked' = cbInvoked
                     ELSE /\ cbInvoked[X] = <<>>
                          /\ cbInvoked' = [cbInvoked EXCEPT ![X] = <<arg>>]
                          /\ startNote' = startNote
             ELSE /\ callbacks' = callbacks
                  /\ cbInvoked' = cbInvoked
                  /\ startNote' = startNote]_vars

\* the reader has read the Ack of an API call whose callback is registered
\* while the user task, in a later call, is registering another callback
C9_AckDuringRegister ==
  /\ pcR = "dispatch"
  /\ rxFrame.mt = "Ack"
  /\ rxFrame.id \in DOMAIN callbacks
  /\ callbacks[rxFrame.id] = "user"
  /\ pc = "register"
  /\ call.cb # Nil

\* C10: a Subscribe call that returns an error because one of its pairs
\* fails its check or names a handler the topic has already leaves the
\* handler map as it was before the call.
C10_FailedSubscribeAddsNothing ==
  [][(/\ pc = "lock"
      /\ call.op = "Subscribe"
      /\ pc' = "idle"
      /\ ret'.err = "addFailed") => handlers' = handlers]_vars

\* a Subscribe call whose first pair is valid and new and whose second pair
\* fails its check is at its Lock on a connected client
C10_SecondPairFails ==
  /\ pc = "lock"
  /\ call.op = "Subscribe"
  /\ connected
  /\ Len(call.list) = 2
  /\ THCheck(call.list[1])
  /\ call.list[1].topic \notin DOMAIN handlers
  /\ ~THCheck(call.list[2])

\* the state of the client that an API call can change
clientState == <<handlers, callbacks, msgID, wire, mtx, connVars>>

C12_ClosedOnce == closeCalls <= 1 /\ chanCloses <= 1

\* the Start frame could not be written, Connect has closed the stream and
\* returned, and the writer, having failed to write a Ping frame, has left
\* its loop on a client that is still marked connected
C12_PingAfterFailedStart ==
  /\ pc = "done"
  /\ ret.err = "startWriteFailed"
  /\ closeCalls = 1
  /\ connected
  /\ pcW = "closing"

\* C13: the bytes of two frames never interleave on the stream: the header
\* of a frame that is written in two parts is followed on the stream by
\* nothing but the payload of that frame.
C13_FramesNotInterleaved ==
  \A i \in 1 .. Len(wire) - 1 :
    wire[i].part = "hdr"
      => (wire[i + 1].part = "payload" /\ wire[i + 1].id = wire[i].id)

\* the connecting task has written the header of the Start frame and not yet
\* its payload, while the writer task of a pingable client is in its loop
C13_StartHalfWritten ==
  /\ pc = "startPayload"
  /\ wire[Len(wire)].part = "hdr"
  /\ pcW = "select"
  /\ isPingable

\* the handlers called by a delivery for topic t, in the order of the calls
Delivery(hm, t) ==
  LET calls == callMsgHandlers(hm, t, Nil)
  IN [i \in 1 .. Len(calls) |-> calls[i][1]]

\* the elements of sequence q that are in set S, in the order of q
RECURSIVE Kept(_, _)
Kept(q, S) ==
  IF q = <<>> THEN <<>>
  ELSE (IF q[1] \in S THEN <<q[1]>> ELSE <<>>) \o Kept(Tail(q), S)

\* the handlers a (topic, handler) list names for topic t, in list order
RECURSIVE NamedInOrder(_, _)
NamedInOrder(list, t) ==
  IF list = <<>> THEN <<>>
  ELSE (IF list[1].topic = t THEN <<list[1].handler>> ELSE <<>>)
       \o NamedInOrder(Tail(list), t)

\* C14: when the delivery step runs for topic T it calls each live handler of
\* T exactly once, with T and the payload of the frame, and calls no handler
\* that is not live for T; the calls are made in the order in which the live
\* handlers were added.  The order is stated step by step: a delivery made
\* after any step calls the handlers that were live before the step and
\* still are in the order a delivery before the step would have called
\* them, and then the handlers the step has added; so a handler that was
\* removed and added again is called after every handler that was live when
\* it was added again.
C14_DeliveryOrder ==
  [][/\ (pcR = "deliver" /\ pcR' = "delivering")
        => /\ \A h \in Handlers :
                Cardinality({i \in 1 .. Len(invoked') : invoked'[i][1] = h})
                  = (IF h \in Live(handlers, rxFrame.topic) THEN 1 ELSE 0)
           /\ \A i \in 1 .. Len(invoked') :
                /\ invoked'[i][2] = rxFrame.topic
                /\ invoked'[i][3] = rxFrame.data
           /\ [i \in 1 .. Len(invoked') |-> invoked'[i][1]]
                = Delivery(handlers, rxFrame.topic)
     /\ \A t \in ValidTopics :
          LET old == Delivery(handlers, t)
              new == Delivery(handlers', t)
          IN new = Kept(old, Live(handlers', t))
                   \o Kept(NamedInOrder(call.list, t),
                           Live(handlers', t) \ Live(handlers, t))]_vars

\* a delivery is running for a topic with two live handlers, of which the
\* one added first has been removed and added again: it is called last
C14_ReAddedCalledLast ==
  /\ pcR = "delivering"
  /\ ncalls = 4
  /\ Len(invoked) = 2
  /\ invoked[1][1] = "h2"
  /\ invoked[2][1] = "h1"
  /\ handlers[rxFrame.topic].handlerMap[HandlerID("h1")] = 3

\* C15: for every message with a valid type, any id of the 32-bit range and
\* a payload of 0 to 65535 bytes, Write to an empty buffer succeeds and
\* ReadMsg on that buffer then succeeds, returns the type, the id and the
\* payload that were written, and leaves the buffer empty.
C15_RoundTrip ==
  (/\ wr # NoIO
   /\ MinMsgType < wr.msg.MT /\ wr.msg.MT < MaxMsgType
   /\ BsLen(wr.msg.Payload) <= 65535)
    => /\ wr.err = "nil"
       /\ rd # NoIO => (rd.err = "nil" /\ rd.msg = wr.msg /\ buf = <<>>)

\* a message with the largest id and the longest payload has been written
\* and read back
C15_LongestRead ==
  /\ wr # NoIO
  /\ wr.msg.MsgID = U32(65535, 65535)
  /\ BsLen(wr.msg.Payload) = 65535
  /\ rd.err = "nil"
  /\ BsLen(rd.msg.Payload) = 65535

\* C16: Write fails for every payload of 65536 bytes or more and succeeds
\* for a payload of 65535 bytes with a valid type; a Write that fails because
\* of the payload size or the type has written no byte.
C16_PayloadBound ==
  wr # NoIO
    => /\ BsLen(wr.msg.Payload) >= 65536 => wr.err # "nil"
       /\ (/\ BsLen(wr.msg.Payload) = 65535
           /\ MinMsgType < wr.msg.MT /\ wr.msg.MT < MaxMsgType)
            => wr.err = "nil"
       /\ (wr.err # "nil" /\ rd = NoIO) => buf = <<>>

\* a message with a valid type and a payload of 65536 bytes has been refused
C16_OneByteTooMany ==
  /\ wr # NoIO
  /\ rd = NoIO
  /\ BsLen(wr.msg.Payload) = 65536
  /\ wr.msg.MT = MinMsgType + 1
  /\ wr.err = "tooBig"

\* C17: a type is valid exactly when it is strictly between the lower
\* sentinel, 0, and MaxMsgType; Write returns an error for a message whose
\* type is not valid, and ReadMsg returns an error for a header whose type
\* byte is not valid, and neither refuses a type that is valid.
C17_TypeChecked ==
  [][/\ \A mt \in 0 .. 255 :
          (Check(mt) = "nil") <=> (0 < mt /\ mt < MaxMsgType)
     /\ (wr = NoIO /\ wr' # NoIO)
          => IF 0 < wr'.msg.MT /\ wr'.msg.MT < MaxMsgType
             THEN wr'.err \in {"nil", "tooBig"}
             ELSE wr'.err # "nil"
     /\ (rd = NoIO /\ rd' # NoIO /\ BsLen(buf) >= 11)
          => IF 0 < BsAt(buf, 5) /\ BsAt(buf, 5) < MaxMsgType
             THEN rd'.err # "badType"
             ELSE rd'.err # "nil"]_vars

\* a hand-made header with the right magic number and a type byte that is not
\* valid has been read and refused for its type
C17_TypeByteRefused ==
  /\ wr = NoIO
  /\ rd.err = "badType"
  /\ buf # <<>>

\* C18: ReadMsg returns an error when fewer than 11 bytes are there for the
\* header, when the first four bytes are not those of 0xB0AD1CEA, and when
\* the payload length is not zero and fewer bytes than that follow the
\* header; a header with the right magic number, a valid type and the length
\* zero is read with no error and no byte after the header is taken.
C18_ReadChecks ==
  [][(rd = NoIO /\ rd' # NoIO)
       => /\ BsLen(buf) < 11 => rd'.err # "nil"
          /\ BsLen(buf) >= 11
               => LET b == BsBytes(buf, 11)
                      magic == SubSeq(b, 1, 4) = <<234, 28, 173, 176>>
                      valid == 0 < b[5] /\ b[5] < MaxMsgType
                      size == b[10] + 256 * b[11]
                  IN /\ ~magic => rd'.err # "nil"
                     /\ (size > 0 /\ BsLen(buf) - 11 < size) => rd'.err # "nil"
                     /\ (magic /\ valid /\ size = 0)
                          => /\ rd'.err = "nil"
                             /\ BsLen(rd'.msg.Payload) = 0
                             /\ BsLen(buf') = BsLen(buf) - 11
                             /\ BsCat(BsOf(b), buf') = buf]_vars

\* a hand-made header with the payload length zero has been read with no
\* error, and the bytes that followed it are still in the buffer
C18_HeaderOnlyRead ==
  /\ wr = NoIO
  /\ rd.err = "nil"
  /\ BsLen(rd.msg.Payload) = 0
  /\ BsLen(buf) = MaxShort

\* the handlers in the slots of a handler set
InSet(hs) == Range(hs.handlersInOrder) \ {Nil}

\* C19: after every addHandler and removeHandler call on a handler set,
\* failing calls included, handlerCount is the number of handlers in the set,
\* which is the number of slots that are not empty, and the slot sequence is
\* empty or ends with a slot that is not empty, so that an empty slot is
\* never the last one.  The handlers in the set are those that were there
\* before the call, with the handler of an addHandler call and without the
\* handler of a removeHandler call.
C19_CountAndSlots ==
  [][hops' = hops + 1
       => LET slots == hset'.handlersInOrder
          IN /\ handlerCount(hset') = Cardinality(InSet(hset'))
             /\ handlerCount(hset')
                  = Cardinality({i \in 1 .. Len(slots) : slots[i] # Nil})
             /\ slots = <<>> \/ slots[Len(slots)] # Nil
             /\ InSet(hset') = IF hres'.op = "add"
                               THEN InSet(hset) \cup {hres'.h}
                               ELSE InSet(hset) \ {hres'.h}]_vars

\* a call has failed on a handler set of three slots, the second of which is
\* empty
C19_InteriorEmptySlot ==
  /\ hres.err \in {"alreadyAdded", "notInSet"}
  /\ Len(hset.handlersInOrder) = 3
  /\ hset.handlersInOrder[2] = Nil

\* C20: addHandler with a handler that is in the handler set fails with the
\* already-added error, removeHandler with a handler that is not in the set
\* fails with the not-in-set error, and both leave the slot sequence and the
\* index map as they were.
C20_FailedCallsChangeNothing ==
  [][hops' = hops + 1
       => /\ (hres'.op = "add" /\ hres'.h \in InSet(hset))
               => (hres'.err = "alreadyAdded" /\ hset' = hset)
          /\ (hres'.op = "remove" /\ hres'.h \notin InSet(hset))
               => (hres'.err = "notInSet" /\ hset' = hset)]_vars

\* a handler has been added a second time to a set of two handlers
C20_AddedAgain ==
  /\ hres.op = "add"
  /\ hres.err = "alreadyAdded"
  /\ handlerCount(hset) = 2

\* t starts with a slash and is the slash alone or has no empty, "." or ".."
\* segment and no slash at its end: after every slash comes a character that
\* is not a slash, and what stands between a slash and the next slash or
\* the end is neither "." nor ".."
WellFormed(t) ==
  /\ Len(t) > 0
  /\ t[1] = "/"
  /\ \/ t = <<"/">>
     \/ \A i \in 1 .. Len(t) :
          t[i] = "/"
            => /\ i < Len(t)
               /\ t[i + 1] # "/"
               /\ ~(t[i + 1] = "." /\ (i + 1 = Len(t) \/ t[i + 2] = "/"))
               /\ ~(/\ t[i + 1] = "."
                    /\ i + 2 <= Len(t)
                    /\ t[i + 2] = "."
                    /\ (i + 2 = Len(t) \/ t[i + 3] = "/"))

\* C21: Check accepts exactly the strings that start with a slash and are
\* their own cleaned form: "/" is accepted; the empty string, every string
\* that does not start with a slash and every string with an empty, "." or
\* ".." segment or a slash at its end is rejected.
C21_CheckAcceptsCleanAbsolute ==
  tchk # "none" => ((tchk = "nil") <=> WellFormed(tstr))

\* a string that starts with a slash and ends with one, as "/a/", has been
\* rejected
C21_TrailingSlashRejected ==
  /\ tchk = "badTopic"
  /\ Len(tstr) = 3
  /\ tstr[1] = "/"
  /\ tstr[2] = "a"
  /\ tstr[3] = "/"

\* the number of slashes in a string
Slashes(t) == Cardinality({i \in 1 .. Len(t) : t[i] = "/"})

\* C22: for a valid topic of n segments SubTopics returns n + 1 topics: the
\* topic itself, then for each topic its parent -- the topic without its
\* last slash and what follows it, or "/" when that slash is the first
\* character -- and "/" last; for an invalid topic it returns the topic alone.
C22_AncestorChain ==
  tsub # <<>>
    => IF WellFormed(tstr)
       THEN /\ Len(tsub) = (IF tstr = <<"/">> THEN 0 ELSE Slashes(tstr)) + 1
            /\ tsub[1] = tstr
            /\ tsub[Len(tsub)] = <<"/">>
            /\ \A i \in 1 .. Len(tsub) - 1 :
                 \E k \in 1 .. Len(tsub[i]) :
                   /\ tsub[i][k] = "/"
                   /\ \A j \in k + 1 .. Len(tsub[i]) : tsub[i][j] # "/"
                   /\ tsub[i + 1] = (IF k = 1 THEN <<"/">>
                                     ELSE SubSeq(tsub[i], 1, k - 1))
       ELSE tsub = <<tstr>>

\* the ancestors of a topic of two segments have been listed
C22_TwoSegments ==
  /\ Len(tsub) = 3
  /\ tstr = <<"/", "a", "/", "b">>

\* C23: every run of the Callback made by MakeCallback(c, v), with a nil or
\* with a non-nil error, leads to v being sent on c when some task receives
\* from c: once the receiving task has taken everything that is being sent,
\* v has been received once for each run of the Callback.  (The task running
\* the Callback is not blocked: the send is made by another goroutine.)
C23_EveryRunSends ==
  ~ENABLED ChanReceive => Len(mcb.got) = Len(mcb.calls)

\* the Callback has been run with a non-nil error and nothing is being sent
C23_RunWithError ==
  /\ mcb.calls = <<"err">>
  /\ mcb.senders = 0
  /\ mcb.got = <<>>

\* C24: Disconnect on a client whose connected flag is false returns the
\* not-connected error and sends nothing on the stop channel: the writer and
\* the connection are left as they were.  Disconnect on a connected client
\* goes on to send on the stop channel; it returns only when the writer, in
\* its loop, has received the stop signal, and then it returns nil; a writer
\* that is in its loop can receive it.
C24_Disconnect ==
  [][/\ (pc = "lock" /\ call.op = "Disconnect" /\ pc' # "lock")
          => IF ~connected
             THEN /\ pc' = "idle"
                  /\ ret' = [op |-> "Disconnect", err |-> "errNoConn"]
                  /\ UNCHANGED <<pcW, connVars, wire, mtx>>
             ELSE /\ pc' = "sendStop"
                  /\ ret' = NoRet
     /\ (pc = "sendStop" /\ pc' # "sendStop")
          => /\ pc' = "idle"
             /\ ret' = [op |-> "Disconnect", err |-> "nil"]
             /\ pcW = "select"
             /\ pcW' = "closing"
     /\ (pc = "sendStop" /\ pcW = "select") => ENABLED WriterStop]_vars

\* a Disconnect call has returned nil and a later one the not-connected
\* error
C24_SecondDisconnect ==
  /\ disconnected
  /\ pc = "idle"
  /\ ret = [op |-> "Disconnect", err |-> "errNoConn"]

\* C25: every step that changes the callback table or the message-id
\* counter is taken by a task that holds the client mutex at that step (it
\* held it before the step or has taken it in the step): the user task or
\* the reader task; and the reader is never at its lookup in the table while
\* another task is writing the table.
C25_TableUnderMutex ==
  [][/\ (callbacks' # callbacks \/ msgID' # msgID)
          => \/ pc' # pc /\ "user" \in {mtx, mtx'}
             \/ pcR' # pcR /\ "reader" \in {mtx, mtx'}
     /\ ~(tableWriter /\ pcR = "dispatch" /\ rxFrame.mt \in {"Ack", "Error"})
    ]_vars

\* the reader has taken the callback of an Ack frame out of the table and
\* run it, while the mutex is free
C25_ReaderTookCallback ==
  /\ mtx = "free"
  /\ pcR = "reading"
  /\ \E id \in FrameIDs : cbInvoked[id] = <<"nil">> /\ id \notin DOMAIN callbacks

\* C26: no reachable state is a deadlock between an API caller and the
\* writer: whenever a call is in its send on the send channel or the stop
\* channel, holding the mutex, or the writer is in its shutdown path, some
\* task can take a step, so that the send is received, the call returns and
\* the shutdown path completes.
C26_NoDeadlock ==
  (pc \in {"send", "sendStop"} \/ pcW = "closing") => ENABLED TaskSteps

\* a call is in its send, holding the mutex, and the writer, having left its
\* loop, waits for the mutex in its shutdown path
C26_SendMeetsClosingWriter ==
  /\ pc \in {"send", "sendStop"}
  /\ mtx = "user"
  /\ pcW = "closing"
  /\ connected

\* C27: no API call sends on the send channel or on the stop channel after
\* the channels have been closed: a call that is about to send, or is in its
\* send, holds the mutex and the channels are open; the channels are closed
\* only by a task that takes the mutex for it, while no call is between its
\* test of the connected flag and the end of its send, and the connected
\* flag is false once they are closed.
C27_NoSendOnClosedChannel ==
  [][/\ pc' \in {"register", "send", "sendStop"}
          => (chanCloses' = 0 /\ mtx' = "user")
     /\ chanCloses' # chanCloses
          => /\ mtx = "free"
             /\ pc \notin {"register", "send", "sendStop"}
             /\ ~connected']_vars

\* the channels have been closed and a later call has been refused
C27_RefusedAfterClose ==
  /\ chanCloses = 1
  /\ pc = "idle"
  /\ ret.err = "errNoConn"
  /\ ret.op \in {"Publish", "Subscribe", "Unsubscribe"}

\* the handlers that the first k entries of a list name for topic t
NamedBefore(list, k, t) ==
  {list[j].handler : j \in {n \in 1 .. k : list[n].topic = t}}

\* entry i of an Unsubscribe list names a topic with no handler set, or a
\* handler that is not in the set of its topic, once the entries before it
\* have been removed from handler map hm
EntryFails(hm, list, i) ==
  list[i].handler
    \notin (Live(hm, list[i].topic) \ NamedBefore(list, i - 1, list[i].topic))

\* C28: an Unsubscribe call on a connected client whose list has, at entry
\* i, a topic with no handler set or a handler that is not in the set of its
\* topic, returns an error, hands no frame to the writer, allocates no
\* message id and registers no callback; the handlers of the entries before i
\* have been removed, and a topic left with no handler has no entry in the
\* handler map any more.
C28_FailedUnsubscribe ==
  [][(pc = "lock" /\ call.op = "Unsubscribe" /\ connected /\ pc' # "lock")
       => \A i \in 1 .. Len(call.list) :
            (/\ EntryFails(handlers, call.list, i)
             /\ \A j \in 1 .. i - 1 : ~EntryFails(handlers, call.list, j))
              => /\ pc' = "idle"
                 /\ ret' = [op |-> "Unsubscribe", err |-> "removeFailed"]
                 /\ UNCHANGED <<msgID, callbacks, wire>>
                 /\ \A t \in ValidTopics :
                      /\ Live(handlers', t)
                           = Live(handlers, t) \ NamedBefore(call.list, i - 1, t)
                      /\ t \in DOMAIN handlers' <=> Live(handlers', t) # {}]_vars

\* an Unsubscribe call has failed at its second entry after its first entry
\* removed the only handler there was: the handler map is empty and no
\* Unsubscribe frame has been written
C28_FailedAfterRemoval ==
  /\ pc = "idle"
  /\ ret = [op |-> "Unsubscribe", err |-> "removeFailed"]
  /\ DOMAIN handlers = {}
  /\ Len(wire) = 3
  /\ wire[3].mt = "Subscribe"

\* the topics named in the payload of a Subscribe or Unsubscribe message
ToldTopics(msg) == {msg.topics[i] : i \in 1 .. Len(msg.topics)}

\* C29: the topics of the local handler map stay the topics the broker has
\* been told about, call by call: a Subscribe or Unsubscribe call on a
\* running client that goes on to submit a frame changes the topics of the
\* map by exactly the topics the frame names (added by a Subscribe frame,
\* taken away by an Unsubscribe frame), and a call that returns without
\* submitting a frame leaves the topics of the map as they were.
C29_MapMatchesBroker ==
  [][(pc = "lock" /\ call.op \in {"Subscribe", "Unsubscribe"} /\ pc' # "lock")
       => IF pc' = "register"
          THEN /\ call'.msg.mt = call.op
               /\ DOMAIN handlers'
                    = IF call.op = "Subscribe"
                      THEN DOMAIN handlers \cup ToldTopics(call'.msg)
                      ELSE DOMAIN handlers \ ToldTopics(call'.msg)
          ELSE DOMAIN handlers' = DOMAIN handlers]_vars

\* a Subscribe call has failed and the handler map holds a topic, though
\* nothing but the Start message has ever been written to the broker
C29_TopicNeverTold ==
  /\ pc = "idle"
  /\ ret = [op |-> "Subscribe", err |-> "addFailed"]
  /\ DOMAIN handlers # {}
  /\ Len(wire) = 2
  /\ \A i \in 1 .. Len(wire) : wire[i].mt = "Start"

\* the places on the stream of the Subscribe, Unsubscribe and Publish frames
APIFramesWritten ==
  {i \in 1 .. Len(wire) : wire[i].mt \in {"Subscribe", "Unsubscribe", "Publish"}}

\* C30: the writer task writes each frame it receives on the send channel as
\* one whole frame, in the order of submission: a step that writes the frame
\* of an API call appends that frame, and nothing else, to the stream, and
\* the message ids of the Subscribe, Unsubscribe and Publish frames on the
\* stream are strictly increasing.
C30_FramesInOrder ==
  /\ \A i \in APIFramesWritten : wire[i].part = "frame"
  /\ \A i, j \in APIFramesWritten : i < j => wire[i].id < wire[j].id
  /\ (pc = "send" /\ APIFramesWritten # {})
       => \A i \in APIFramesWritten : wire[i].id < call.msg.id

\* two API frames are on the stream, a Subscribe frame and after it a
\* Publish frame
C30_TwoFramesWritten ==
  \E i, j \in APIFramesWritten :
    /\ i < j
    /\ wire[i].mt = "Subscribe"
    /\ wire[j].mt = "Publish"

C32_StartFrameFirst ==
  \A i \in 1 .. Len(wire) :
    IF wire[i].mt = "Start"
    THEN /\ wire[i].id = 1
         /\ wire[i].part = (IF i = 1 THEN "hdr" ELSE "payload")
         /\ i <= 2
    ELSE i > 2

\* a Ping frame is the first thing on the stream, and the Start frame has
\* been written after it
C32_PingBeforeStart ==
  /\ Len(wire) >= 2
  /\ wire[1].mt = "Ping"
  /\ wire[2] = [mt |-> "Start", id |-> 1, part |-> "hdr"]

\* the steps by which the API call made by a handler goes on and returns
HandlerCallSteps ==
  \/ SubscribeBody
  \/ UnsubscribeBody
  \/ PublishBody
  \/ Register
  \/ WriterSend
  \/ HandlerReturns

\* C33: a handler that calls Publish, Subscribe or Unsubscribe on its own
\* client during delivery is never blocked for good: while the call is
\* running some step of it can be taken, up to the return of the handler,
\* after which the remaining handlers are called.
C33_HandlerCallGoesOn == pcR = "inHandler" => ENABLED HandlerCallSteps

\* a handler has called Publish, which waits in c.mtx.Lock() for the mutex
\* that callMsgHandlers, its own caller, holds
C33_HandlerWaitsForOwnLock ==
  /\ pcR = "inHandler"
  /\ pc = "lock"
  /\ call.op = "Publish"
  /\ mtx = "reader"

\* C34: a Ping frame is written only by a client that has a ping handler
\* and a positive ping interval; it bears message id 0; and neither the step
\* that writes a Ping frame nor the reader's handling of a Ping frame it
\* has read changes the message-id counter or the callback table.
C34_PingFrames ==
  [][/\ (Len(wire') > Len(wire) /\ wire'[Len(wire')].mt = "Ping")
          => /\ pingHandler
             /\ pingInterval > 0
             /\ wire'[Len(wire')].id = 0
             /\ UNCHANGED <<msgID, callbacks>>
     /\ (pcR = "dispatch" /\ rxFrame.mt = "Ping" /\ pcR' # pcR)
          => UNCHANGED <<msgID, callbacks>>]_vars

\* a Ping frame has been written, the reader has read and handled a Ping
\* frame, and the counter stands where the Start message left it, the
\* callback of the Start message still in the table
C34_PingEchoed ==
  /\ \E i \in 1 .. Len(wire) : wire[i].mt = "Ping" /\ wire[i].id = 0
  /\ pcR = "exited"
  /\ rxFrame.mt = "Ping"
  /\ msgID = 1
  /\ DOMAIN callbacks = {1}

\* C35: the delivery step for topic T calls the handlers that are live for
\* T itself, each with T, and no other handler, whatever is registered for
\* the ancestors and the descendants of T; when T has no handler set it calls
\* nothing and changes nothing of the client, and once the handlers have
\* returned the reader goes back to its read.
C35_ExactTopicOnly ==
  [][/\ (pcR = "deliver" /\ pcR' = "delivering")
          => /\ {invoked'[i][1] : i \in 1 .. Len(invoked')}
                  = Live(handlers, rxFrame.topic)
             /\ \A i \in 1 .. Len(invoked') : invoked'[i][2] = rxFrame.topic
             /\ rxFrame.topic \notin DOMAIN handlers => invoked' = <<>>
             /\ UNCHANGED <<handlers, callbacks, msgID, connVars, wire,
                            cbInvoked>>
     /\ (pcR = "delivering" /\ pcR' # "delivering")
          => /\ pcR' = "reading"
             /\ mtx' = "free"
             /\ UNCHANGED <<handlers, callbacks, msgID, connVars, wire,
                            cbInvoked>>]_vars

\* a delivery for "/a/b" is running: it has called h2, the one handler
\* registered for "/a/b", and not h1, which is registered for "/"
C35_AncestorNotCalled ==
  /\ pcR = "delivering"
  /\ rxFrame.topic = <<"/", "a", "/", "b">>
  /\ invoked = <<<<"h2", rxFrame.topic, rxFrame.data>>>>
  /\ Live(handlers, <<"/">>) = {"h1"}

\* C36: across every addHandler and removeHandler call on a handler set, a
\* handler that is in the set before and after the call keeps the slot
\* index recorded for it; after the call every recorded index lies within
\* the slot sequence and its slot holds the handler it is recorded for; and
\* no slot changes place: a slot that was there before the call and is
\* still there holds what it held, or is empty after a removal, so that the
\* sequence changes only by an emptied slot, slots dropped at its end, or a
\* slot appended.
C36_StableSlots ==
  [][hops' = hops + 1
       => LET slots == hset'.handlersInOrder
              old == hset.handlersInOrder
          IN /\ \A h \in SetHandlers :
                  LET id == HandlerID(h)
                  IN /\ (id \in DOMAIN hset.handlerMap
                           /\ id \in DOMAIN hset'.handlerMap)
                          => hset'.handlerMap[id] = hset.handlerMap[id]
                     /\ id \in DOMAIN hset'.handlerMap
                          => /\ hset'.handlerMap[id] \in 1 .. Len(slots)
                             /\ slots[hset'.handlerMap[id]] = h
             /\ \A i \in 1 .. Len(slots) :
                  IF i <= Len(old)
                  THEN slots[i] = old[i]
                         \/ (slots[i] = Nil /\ hres'.op = "remove"
                               /\ old[i] = hres'.h)
                  ELSE /\ i = Len(old) + 1
                       /\ hres'.op = "add"
                       /\ slots[i] = hres'.h
             /\ Len(slots) < Len(old)
                  => /\ hres'.op = "remove"
                     /\ \A i \in Len(slots) + 1 .. Len(old) :
                          old[i] \in {Nil, hres'.h}]_vars

\* a removal has emptied the second of three slots: the handler of the third
\* slot is still recorded at index 3
C36_ThirdStaysThird ==
  /\ hres = [op |-> "remove", h |-> "h2", err |-> "nil"]
  /\ hset.handlersInOrder = <<"h1", Nil, "h3">>
  /\ hset.handlerMap[HandlerID("h3")] = 3

\* C37: every topic in the handler map of the client has at least one
\* handler, at every moment and so after every Subscribe and Unsubscribe
\* call, failed or not: its set has a slot that is not empty and an index
\* recorded in its handlerMap.
C37_NoTopicWithoutHandler ==
  \A t \in DOMAIN handlers :
    /\ \E i \in 1 .. Len(handlers[t].handlersInOrder) :
         handlers[t].handlersInOrder[i] # Nil
    /\ DOMAIN handlers[t].handlerMap # {}

\* an Unsubscribe call has removed the last handler of the only topic and
\* its frame has been written: the handler map is empty
C37_LastHandlerRemoved ==
  /\ pc = "idle"
  /\ ret = [op |-> "Unsubscribe", err |-> "nil"]
  /\ DOMAIN handlers = {}
  /\ Len(wire) = 4
  /\ wire[3].mt = "Subscribe"
  /\ wire[4].mt = "Unsubscribe"

\* a step in which a callback is run: one given to an API method, or the
\* one of the Start message
CallbackRun ==
  \/ cbInvoked' # cbInvoked
  \/ startNote = "none" /\ startNote' # "none"

\* C38, as stated: the step that closes the client runs no callback and
\* changes neither the callback table nor the handler map nor the message-id
\* counter, and no callback is run at any later step.
C38_NoCallbackAfterClose ==
  [][/\ chanCloses' # chanCloses
          => (~CallbackRun /\ UNCHANGED <<callbacks, handlers, msgID>>)
     /\ chanCloses >= 1 => ~CallbackRun]_vars

\* C38, amended: the step that closes the client runs no callback and
\* changes neither the callback table nor the handler map nor the message-id
\* counter; the reader reads no frame after it; and a callback run after it
\* is the callback of the one Ack or Error frame that the reader had read
\* before the close and had not yet handled.
C38_CloseDrainsNothing ==
  [][/\ chanCloses' # chanCloses
          => (~CallbackRun /\ UNCHANGED <<callbacks, handlers, msgID>>)
     /\ chanCloses >= 1
          => /\ ~(pcR = "reading" /\ pcR' = "dispatch")
             /\ CallbackRun
                  => /\ pcR = "dispatch"
                     /\ pcR' # "dispatch"
                     /\ rxFrame.mt \in {"Ack", "Error"}
                     /\ rxFrame.id \in DOMAIN callbacks
                     /\ callbacks' = getCallback(callbacks, rxFrame.id)]_vars

\* the client has been closed and both tasks have ended with the callback of
\* a call still in the table, never run
C38_ClosedWithCallbackHeld ==
  /\ chanCloses = 1
  /\ pcW = "exited"
  /\ pcR = "exited"
  /\ 2 \in DOMAIN callbacks
  /\ callbacks[2] = "user"
  /\ cbInvoked[2] = <<>>

\* C39: when messages have been written one after the other to a stream,
\* the ReadMsg calls made on it return the messages in the order in which
\* they were written, each call taking 11 bytes and the bytes of the payload
\* of its message; the call after the last message fails with the
\* header-read error; and once every message has been read the stream is
\* empty.
C39_StreamRoundTrip ==
  /\ \A i \in 1 .. Len(recvd) :
       IF i <= Len(sent)
       THEN /\ recvd[i].err = "nil"
            /\ recvd[i].msg = sent[i]
            /\ recvd[i].used = 11 + BsLen(sent[i].Payload)
       ELSE /\ i = Len(sent) + 1
            /\ recvd[i].err = "hdrRead"
            /\ recvd[i].used = 0
  /\ Len(recvd) >= Len(sent) => buf = <<>>

\* a message with the longest payload and a message with no payload have
\* been written and read back, and a third ReadMsg call has failed
C39_TwoReadThenShort ==
  /\ Len(sent) = 2
  /\ BsLen(sent[1].Payload) = 65535
  /\ BsLen(sent[2].Payload) = 0
  /\ Len(recvd) = 3
  /\ recvd[2].msg = sent[2]
  /\ recvd[3].err = "hdrRead"

\* C40: the task started to run the callback of the Start message ends:
\* whenever it stands in its send on the start-ack channel, the connecting
\* task is in startCheck, where it can receive from the channel, or is still
\* writing the Start message, on its way to startCheck.
C40_StartNotifierEnds ==
  startNote \in {"sendNil", "sendErr"}
    => (pc = "startPayload" \/ ENABLED StartCheckAck)

\* the start timeout has expired, Connect has returned, and the task running
\* the callback of the Start message stands in its send of the Ack
C40_AckAfterTimeout ==
  /\ startNote = "sendNil"
  /\ pc = "done"
  /\ ret = [op |-> "Connect", err |-> "startTimedOut"]

====
